---- MODULE Spec2Model ----
(***************************************************************************)
(* Model of the mailing dispatch loop of wb_userbot                       *)
(* (src/bot/background_tasks.py, mailing) together with the store rows it  *)
(* reads and writes (src/bot/db/models.py), the identity cache            *)
(* (src/bot/db/func.py) and the transport (src/bot/utils/func.py,          *)
(* send_message_safe).                                                     *)
(*                                                                         *)
(* The committed store is the variables accounts, texts, usernames, jobs. *)
(* The AsyncSession of one mailing invocation is the variables tx (the     *)
(* statements executed and objects changed but not yet committed),         *)
(* txActive (a transaction has begun) and accountExpired (the loaded       *)
(* Account object was expired by a rollback).  The locals of mailing keep  *)
(* their names; pc is the position of the coroutine.                       *)
(***************************************************************************)
EXTENDS Integers, Sequences, FiniteSets, TLC

\* ---------------------------------------------------------------- bounds
MaxRows == 3          \* rows ever inserted into the usernames table
MaxBatch == 2         \* largest Account.batch_size
MaxFloodSeconds == 20 \* largest FloodWaitError.seconds
MaxPass == 64         \* longest duration of a pass that is counted, in seconds

\* ------------------------------------------------------ program constants
max_send_attempts == 3
cooldown_every == 2
UsernameMinLen == 5
UsernameMaxLen == 32
FloodJitterMin == 3
FloodJitterMax == 12

base_delay == <<6, 12>>
cooldown_range == <<45, 120>>
retry_delay_range == <<2, 5>>

\* ------------------------------------------------------------ the store
\* Account ids that have a row in the accounts table.  The process serves the
\* account whose id is in the cache; the other account belongs to another
\* process and shares the usernames and jobs tables.
AccountIds == {1, 2}

\* Values the cache can hold under the key account_id, after JSON decoding:
\* nothing, an integer, or a string that int() refuses.  The integer 3 is an
\* id without an Account row.
CacheValues ==
    { [kind |-> "none", val |-> 0],
      [kind |-> "int", val |-> 1],
      [kind |-> "int", val |-> 3],
      [kind |-> "text", val |-> 0] }

\* Characters of a stored username, one representative per class the code
\* distinguishes: word characters, '@', whitespace and anything else.
WordChars == {"a", "Z", "7", "_"}
Whitespace == {" "}

\* Usernames the admin side inserts: one that is valid once normalized and
\* one that is too short.  Rows of the other account, whose usernames this
\* process never reads, all get the first.
ValidSample == <<"@", "a", "Z", "7", "_", "a">>
UsernameSamples == { ValidSample, <<"a", "7">> }

Min(a, b) == IF a < b THEN a ELSE b

\* str.strip(): leading and trailing whitespace removed.
RECURSIVE LStrip(_, _)
LStrip(s, chars) ==
    IF s # <<>> /\ Head(s) \in chars THEN LStrip(Tail(s), chars) ELSE s

RECURSIVE RStrip(_, _)
RStrip(s, chars) ==
    IF s # <<>> /\ s[Len(s)] \in chars
    THEN RStrip(SubSeq(s, 1, Len(s) - 1), chars)
    ELSE s

\* _normalize_username: (username or "").strip().lstrip("@")
_normalize_username(username) ==
    LStrip(RStrip(LStrip(username, Whitespace), Whitespace), {"@"})

MutIsValidAnyLength(username) ==
    /\ username # <<>>
    /\ \A i \in 1..Len(username) : username[i] \in WordChars

\* _is_valid_username: non-empty and fullmatch of ^[A-Za-z0-9_]{5,32}$
_is_valid_username(username) ==
    /\ username # <<>>
    /\ Len(username) >= UsernameMinLen
    /\ Len(username) <= UsernameMaxLen
    /\ \A i \in 1..Len(username) : username[i] \in WordChars

MutParseAccountIdDefault(raw) ==
    [ok |-> TRUE, val |-> IF raw.kind = "int" THEN raw.val ELSE 1]

\* int(account_id_raw): TypeError on None, ValueError on a non-numeric string.
ParseAccountId(raw) ==
    IF raw.kind = "int"
    THEN [ok |-> TRUE, val |-> raw.val]
    ELSE [ok |-> FALSE, val |-> 0]

\* The rows select(Username.id, Username.username, Username.item_name)
\*   .where(sended IS false, account_id = aid).order_by(id).limit(lim) returns.
RowIds(table) == [i \in 1..Len(table) |-> i]

IsPending(table, aid, i) ==
    /\ table[i].exists
    /\ ~table[i].sended
    /\ table[i].account_id = aid

MutSelectAnyAccount(table, aid, lim) ==
    LET hit(i) == table[i].exists /\ ~table[i].sended
        all == SelectSeq(RowIds(table), hit)
    IN  [k \in 1..Min(lim, Len(all)) |->
            [id |-> all[k], username |-> table[all[k]].username]]

MutSelectNoLimit(table, aid, lim) ==
    LET hit(i) == IsPending(table, aid, i)
        all == SelectSeq(RowIds(table), hit)
    IN  [k \in 1..Len(all) |->
            [id |-> all[k], username |-> table[all[k]].username]]

SelectPending(table, aid, lim) ==
    LET hit(i) == IsPending(table, aid, i)
        all == SelectSeq(RowIds(table), hit)
    IN  [k \in 1..Min(lim, Len(all)) |->
            [id |-> all[k], username |-> table[all[k]].username]]

\* select(Username.id).where(sended IS false, account_id = aid).limit(1)
\* is None
NoneRemaining(table, aid) ==
    \A i \in 1..Len(table) : ~IsPending(table, aid, i)

\* ------------------------------------------------------------ transport
\* What client.send_message can raise, by class (telethon.errors.rpcerrorlist;
\* "Exception" stands for every other Exception subclass).
UnreachableErrors ==
    { "UserPrivacyRestrictedError", "UserIsBlockedError", "UserDeactivatedError",
      "UserDeactivatedBanError", "ChatWriteForbiddenError" }
InvalidErrors == { "PeerIdInvalidError", "UsernameInvalidError" }
Exceptions ==
    {"FloodWaitError", "PeerFloodError", "Exception"}
        \cup InvalidErrors \cup UnreachableErrors

NoExc == [name |-> "none", seconds |-> 0]

\* The failures one call of client.send_message can end in.
Raised ==
    { [name |-> "FloodWaitError", seconds |-> n] : n \in {1, MaxFloodSeconds} }
        \cup { [name |-> e, seconds |-> 0] : e \in Exceptions \ {"FloodWaitError"} }

\* The failure kinds of the transport (spec section 6), by exception class:
\* what a send attempt ended in, whichever clause of mailing handles it.
ErrorKind(exc) ==
    IF exc.name = "none" THEN "ok"
    ELSE IF exc.name = "FloodWaitError" THEN "flood"
    ELSE IF exc.name = "PeerFloodError" THEN "peer_flood"
    ELSE IF exc.name \in {"PeerIdInvalidError", "UsernameInvalidError"} THEN "invalid"
    ELSE IF exc.name \in
               { "UserPrivacyRestrictedError", "UserIsBlockedError",
                 "UserDeactivatedError", "UserDeactivatedBanError",
                 "ChatWriteForbiddenError" } THEN "unreachable"
    ELSE "other"

\* The except clause of mailing's send loop that catches exc, in the order
\* the clauses are written.
MutHandlerPeerFloodAsOther(exc) ==
    CASE exc.name = "FloodWaitError" -> "flood"
      [] exc.name \in InvalidErrors -> "invalid"
      [] exc.name \in UnreachableErrors -> "unreachable"
      [] OTHER -> "other"

MutHandlerUnreachableAsOther(exc) ==
    CASE exc.name = "FloodWaitError" -> "flood"
      [] exc.name = "PeerFloodError" -> "peer_flood"
      [] exc.name \in InvalidErrors -> "invalid"
      [] OTHER -> "other"

MutHandlerFloodAsOther(exc) ==
    CASE exc.name = "PeerFloodError" -> "peer_flood"
      [] exc.name \in InvalidErrors -> "invalid"
      [] exc.name \in UnreachableErrors -> "unreachable"
      [] OTHER -> "other"

MutHandlerInvalidAsOther(exc) ==
    CASE exc.name = "FloodWaitError" -> "flood"
      [] exc.name = "PeerFloodError" -> "peer_flood"
      [] exc.name \in UnreachableErrors -> "unreachable"
      [] OTHER -> "other"

HandlerOf(exc) ==
    CASE exc.name = "FloodWaitError" -> "flood"
      [] exc.name = "PeerFloodError" -> "peer_flood"
      [] exc.name \in InvalidErrors -> "invalid"
      [] exc.name \in UnreachableErrors -> "unreachable"
      [] OTHER -> "other"

\* send_message_safe(client, entity, messages): the parts are sent in list
\* order; fail = 0 means no part fails, fail = k that client.send_message
\* raises exc on part k, which send_message_safe re-raises.  The result is
\* the return value, the exception and the number of parts that went out.
send_message_safe(messages, fail, exc) ==
    IF fail = 0
    THEN [ok |-> TRUE, exc |-> NoExc, parts |-> Len(messages)]
    ELSE [ok |-> FALSE, exc |-> exc, parts |-> fail - 1]

\* ------------------------------------------------------------- composer
\* A text is a sequence of pieces: words, punctuation marks and format
\* fields; the empty string is <<>>, and joining two texts with a space is
\* their concatenation.  Letter case is not represented, so capitalize() and
\* the lower-casing of the first letter leave a text as it is.
Punctuation == {".", "!", "?"}
Fields == {"{item}", "{price}"}
GratitudeWords == {"thanks"}
AskPrefixes == {"ask"}

\* Python's `a or b` on lists and strings.
Or(a, b) == IF a # <<>> THEN a ELSE b

\* random.choice(pool) of a non-empty pool; of an optional pool, "" when it
\* is empty.
Choices(pool) == { pool[i] : i \in 1..Len(pool) }
ChoiceOrEmpty(pool) == IF pool = <<>> THEN {<<>>} ELSE Choices(pool)

\* _pick_greeting, up to the pool the greeting is chosen from; an empty
\* result is the ValueError of line 130.
_pick_greeting(tp, hour, mix) ==
    LET base_pool ==
            IF 5 <= hour /\ hour < 12 THEN tp.greetings_morning
            ELSE IF 12 <= hour /\ hour < 18 THEN tp.greetings_day
            ELSE IF 18 <= hour /\ hour < 23 THEN tp.greetings_evening
            ELSE tp.greetings_night
        pool == IF mix /\ tp.greetings_anytime # <<>>
                THEN base_pool \o tp.greetings_anytime
                ELSE Or(base_pool, tp.greetings_anytime)
    IN  IF pool # <<>>
        THEN pool
        ELSE Or(tp.greetings_anytime,
                Or(tp.greetings_morning,
                   Or(tp.greetings_day,
                      Or(tp.greetings_evening, tp.greetings_night))))

\* str.format(item=item): KeyError on a field other than {item}.
FormatOk(text) == \A i \in 1..Len(text) : text[i] \in Fields => text[i] = "{item}"
Format(text, item) ==
    [i \in 1..Len(text) |-> IF text[i] = "{item}" THEN item ELSE text[i]]

\* _with_punctuation(text, probability=0.3); add is random.random() < 0.3
_with_punctuation(text, add) ==
    IF text = <<>> THEN <<>>
    ELSE IF text[Len(text)] \in Punctuation THEN text
    ELSE IF add THEN Append(text, ".")
    ELSE text

\* _format_greeting: punct is one of "", "!" and "."
_format_greeting(greeting_text, punct) ==
    [text |-> IF punct = "" THEN greeting_text ELSE Append(greeting_text, punct),
     has_punct |-> punct \in Punctuation]

HasGratitude(text) == \E i \in 1..Len(text) : text[i] \in GratitudeWords

\* The random draws of one call, beside the choices from the pools.
Draws ==
    [punct : {"", "!", "."}, split_greeting : BOOLEAN, follow_draw : BOOLEAN,
     split_follow : BOOLEAN, closing_only : BOOLEAN, follow_mark : BOOLEAN,
     closing_mark : BOOLEAN]

\* Line 245: use_follow_up = bool(follow_up) and random.random() < 0.75
MutUseFollowUpUnchecked(follow_up, draw) == draw
UseFollowUp(follow_up, draw) == follow_up # <<>> /\ draw

\* randomize_text_message, lines 182-258, with the greeting picked, the
\* texts chosen from the pools (lead_in_choice, follow_up and closing_choice
\* are "" when their pool is empty) and the draws d: the list messages.
randomize_text_message(greeting, lead_in_choice, clarifying, follow_up, closing_choice, d) ==
    LET item == "item"
        question == Format(clarifying, item)
        lead_in == IF question # <<>> /\ question[1] \in AskPrefixes
                   THEN <<>> ELSE lead_in_choice
        closing0 == IF closing_choice # <<>>
                    THEN _with_punctuation(closing_choice, d.closing_mark)
                    ELSE <<>>
        closing == IF HasGratitude(follow_up) /\ closing_choice # <<>>
                      /\ HasGratitude(closing_choice)
                   THEN <<>> ELSE closing0
        base_question == lead_in \o question
        greeting_formatted == _format_greeting(greeting, d.punct).text
        first == IF d.split_greeting
                 THEN <<greeting_formatted, base_question>>
                 ELSE <<greeting_formatted \o base_question>>
        use_follow_up == UseFollowUp(follow_up, d.follow_draw)
        follow_sentence ==
            LET fs == _with_punctuation(follow_up, d.follow_mark)
            IN  IF closing # <<>> THEN fs \o closing ELSE fs
    IN  IF use_follow_up
        THEN IF d.split_follow
             THEN Append(first, follow_sentence)
             ELSE [first EXCEPT ![Len(first)] = @ \o follow_sentence]
        ELSE IF closing # <<>> /\ d.closing_only
        THEN [first EXCEPT ![Len(first)] = @ \o closing]
        ELSE first

\* Line 260: return messages if len(messages) > 1 else messages[0]; and
\* mailing, lines 247-249: a str is wrapped into a list again.
Returned(msgs) ==
    IF Len(msgs) > 1 THEN [list |-> TRUE, val |-> msgs]
    ELSE [list |-> FALSE, val |-> msgs[1]]
AsList(messages_raw) ==
    IF messages_raw.list THEN messages_raw.val ELSE <<messages_raw.val>>

\* The texts and draws the dispatch loop is explored with: the loop reads
\* nothing of messages but hands it to send_message_safe, so one shape, the
\* longest, stands for all.
SampleGreeting == <<"hello">>
SampleClarifying == <<"question", "{item}", "?">>
SampleFollowUp == <<"follow_up">>
ComposerDraws ==
    { [punct |-> "!", split_greeting |-> TRUE, follow_draw |-> TRUE,
       split_follow |-> TRUE, closing_only |-> FALSE, follow_mark |-> FALSE,
       closing_mark |-> FALSE] }

\* wait_time = e.seconds + random.randint(3, 12)
FloodWaitTime(seconds, jitter) == seconds + jitter

\* while attempt < max_send_attempts and not success
MutLoopCondNoCap(attempt_, success_) == ~success_
MutLoopCondOnce(attempt_, success_) == attempt_ < 1 /\ ~success_
LoopCond(attempt_, success_) == attempt_ < max_send_attempts /\ ~success_

\* What lines 335-350 do with the row once the send loop is left:
\* mark it sent, delete it, or leave it.
MutRowActionDeleteSkipped(success_, skip_deletion_) ==
    IF success_ THEN "mark_sent" ELSE "delete"

MutRowActionKeepFailed(success_, skip_deletion_) ==
    IF success_ THEN "mark_sent" ELSE "keep"

RowAction(success_, skip_deletion_) ==
    IF success_ THEN "mark_sent"
    ELSE IF ~skip_deletion_ THEN "delete"
    ELSE "keep"

\* if idx % cooldown_every == 0
MutNeedsCooldownFromZero(idx_) == (idx_ - 1) % cooldown_every = 0
NeedsCooldown(idx_) == idx_ % cooldown_every = 0

\* ---------------------------------------------------------------- state
VARIABLES
    cache,           \* the value stored under catcher:<client_hash>:account_id
    accounts,        \* accounts table: id -> [is_started, is_connected, batch_size]
    texts,           \* account id -> "none" | "incomplete" | "complete"
    usernames,       \* usernames table, by id: [account_id, username, sended, exists]
    jobs,            \* jobs table, in insertion order
    pc,              \* position of the mailing coroutine
    account_id,      \* int(account_id_raw)
    account,         \* the Account object loaded by session.get
    accountExpired,  \* a rollback expired the attributes of account
    txActive,        \* the session has begun a transaction
    tx,              \* changes executed or flushed, not yet committed
    targets,         \* the fetched batch: <<[id, username], ...>>
    idx,             \* enumerate(targets, start=1)
    messages,        \* the composed parts for the current recipient
    attempt,
    success,
    skip_deletion,
    stop_mailing,
    sent,
    result,          \* row id -> the kind its last send attempt of this pass ended in
    history,         \* the kinds the send attempts on the current recipient ended in
    lastExc,         \* the exception raised in the latest step of mailing, if any
    lastSleep,       \* the asyncio.sleep of the latest step of mailing, if any:
                     \* its kind and the range <<least, most>> of its seconds
    unreachable,     \* rows an unreachable-recipient error was ever raised for
    exit             \* how the last invocation ended: "returned", "stopped" (the
                     \* account was stopped and the Job added) or "raised"

\* The scheduler loop of the process (src/bot/__main__.py) and the mailing job
\* it runs.
VARIABLES
    settings,        \* [min, max]: MAILING_INTERVAL_MIN_SEC and MAILING_INTERVAL_MAX_SEC
    loop_pc,         \* position of run_scheduler: "loop", "awaiting", "sleeping"
    due,             \* seconds until the mailing job should run; 0: it should run
    interval,        \* mailing_job.interval
    active,          \* mailing invocations started and not yet returned
    elapsed          \* seconds the running invocation has lasted so far

schedVars == <<settings, loop_pc, due, interval, active, elapsed>>

\* One call of the composer (src/bot/utils/func.py, randomize_text_message).
VARIABLES
    text_pools,      \* the TextPools of the account: pool name -> list of texts
    comp_pc,         \* "start" before the call, "done" after it
    composed         \* what the call ended in: the messages or the error raised

compVars == <<text_pools, comp_pc, composed>>

\* The Redis server behind the cache wrapper (src/bot/db/func.py) and the
\* calls made through RedisStorage objects.
VARIABLES
    redis,           \* the keys present on the server and the bytes stored under each
    written,         \* client hash -> key -> the value last set and not deleted, or None
    got              \* the latest call of get: its storage, its key and its result

cacheVars == <<redis, written, got>>

\* One call of process_jobs (src/bot/background_tasks.py) at a time.
VARIABLES
    pj_pc,           \* position of process_jobs: "idle", "selected", "loop"
    pj_account_id,   \* its local account_id, 0 outside a call
    pj_jobs,         \* its local jobs: the positions of the selected Jobs in the table
    pinned_user_ids, \* its local pinned_user_ids, as a set
    pj_exit          \* how the latest call ended, "none" before the first

jobVars == <<pj_pc, pj_account_id, pj_jobs, pinned_user_ids, pj_exit>>

\* The send loop of mailing for one recipient (lines 254-333), with the calls
\* of send_message_safe (src/bot/utils/func.py) taken part by part.
VARIABLES
    sm_messages,     \* messages: the parts composed for the recipient
    sm_pc,           \* "loop" (the while test), "sending" (in send_message_safe), "left"
    sm_pos,          \* position of send_message_safe's for loop, 0 outside a call
    sm_attempt,      \* attempt
    sm_success,      \* success
    sm_break,        \* an except clause has left the loop with break
    sm_log,          \* the calls of client.send_message made for the recipient
    sm_returned      \* what the latest call of send_message_safe ended in

sendVars ==
    <<sm_messages, sm_pc, sm_pos, sm_attempt, sm_success, sm_break, sm_log,
      sm_returned>>

\* The start of the program (src/bot/__main__.py, main): the binding of the
\* session to an Account, then the registration of the periodic jobs.
VARIABLES
    account_paths,    \* the Account table: id -> path_session, NoPath without a row
    bot_path_session, \* the session path the program was started with
    bot_api_hash,     \* the API hash it was started with: the storage's client hash
    main_pc,          \* position of main
    main_account_id,  \* main's local account_id, None before it is assigned
    registered,       \* the job functions the scheduler holds
    ran,              \* the job functions the scheduler has called
    set_calls         \* the values main has passed to storage.set("account_id", ...)

startVars ==
    <<account_paths, bot_path_session, bot_api_hash, main_pc, main_account_id,
      registered, ran, set_calls>>
auxVars == <<schedVars, compVars, cacheVars, jobVars, sendVars, startVars>>

storeVars == <<cache, accounts, texts, usernames, jobs>>
sessVars == <<account, accountExpired, txActive, tx>>
localVars ==
    <<account_id, targets, idx, messages, attempt, success, skip_deletion,
      stop_mailing, sent>>
histVars == <<result, history, lastExc, lastSleep, unreachable, exit>>
mailVars == <<storeVars, pc, sessVars, localVars, histVars>>
vars == <<mailVars, auxVars>>
schedRest == <<mailVars, compVars, cacheVars, jobVars, sendVars, startVars>>
compRest == <<mailVars, schedVars, cacheVars, jobVars, sendVars, startVars>>
cacheRest == <<mailVars, schedVars, compVars, jobVars, sendVars, startVars>>
sendRest == <<mailVars, schedVars, compVars, cacheVars, jobVars, startVars>>
startRest == <<mailVars, schedVars, compVars, jobVars, sendVars>>
jobsRest == <<cache, accounts, texts, usernames, pc, sessVars, localVars, histVars,
              schedVars, compVars, cacheVars, sendVars, startVars>>

NoAccount == [id |-> 0, is_started |-> FALSE, is_connected |-> FALSE, batch_size |-> 0]
NoSleep == [kind |-> "none", secs |-> <<0, 0>>]
NoResult == [i \in 1..MaxRows |-> "none"]

\* The scheduler before set_tasks has run.
SchedIdle ==
    /\ settings = [min |-> 0, max |-> 0]
    /\ loop_pc = "loop"
    /\ due = 0
    /\ interval = 0
    /\ active = 0
    /\ elapsed = 0

\* No text pools loaded, the composer not called.
PoolNames ==
    { "greetings_morning", "greetings_day", "greetings_evening", "greetings_night",
      "greetings_anytime", "clarifying_texts", "follow_up_texts", "lead_in_texts",
      "closing_texts" }
NoComposed == [status |-> "none", messages |-> <<>>]

CompIdle ==
    /\ text_pools = [n \in PoolNames |-> <<>>]
    /\ comp_pc = "start"
    /\ composed = NoComposed

\* The cache wrapper RedisStorage (src/bot/db/func.py). A string is the
\* sequence of its characters, so that building a key is a concatenation.
None == [kind |-> "none", val |-> 0]
Int_(n) == [kind |-> "int", val |-> n]

\* Client hashes and keys: the key of the program ("account_id") and one that
\* differs from it only by a character the longer client hash ends with.
ClientHashes == { <<"a">>, <<"a", "b">> }
AccountIdKey == <<"a", "c", "c", "o", "u", "n", "t", "_", "i", "d">>
CacheKeys == { AccountIdKey, <<"b">> \o AccountIdKey }
CacheInts == {-3, 0, 7, 12}

\* No key on the server, no call of get made so far.
CacheIdle ==
    /\ redis = {}
    /\ written = [h \in ClientHashes |-> [k \in CacheKeys |-> None]]
    /\ got = [hash |-> <<>>, key |-> <<>>, value |-> None]

\* No call of process_jobs under way, none made so far.
JobsIdle ==
    /\ pj_pc = "idle"
    /\ pj_account_id = 0
    /\ pj_jobs = {}
    /\ pinned_user_ids = {}
    /\ pj_exit = "none"

\* No recipient taken up by the send loop yet.
NotCalled == [status |-> "none", exc |-> [name |-> "none", seconds |-> 0]]

SendIdle ==
    /\ sm_messages = <<>>
    /\ sm_pc = "left"
    /\ sm_pos = 0
    /\ sm_attempt = 0
    /\ sm_success = FALSE
    /\ sm_break = FALSE
    /\ sm_log = <<>>
    /\ sm_returned = NotCalled

\* main has not started; no Account row, nothing registered.
NoPath == "-"
SessionPaths == {"s1", "s2"}
PeriodicJobs == {"mailing", "process_jobs", "update_account_name"}

StartIdle ==
    /\ account_paths = [a \in AccountIds |-> NoPath]
    /\ bot_path_session = "s1"
    /\ bot_api_hash = <<"a">>
    /\ main_pc = "start"
    /\ main_account_id = None
    /\ registered = {}
    /\ ran = {}
    /\ set_calls = <<>>

AuxIdle == SchedIdle /\ CompIdle /\ CacheIdle /\ JobsIdle /\ SendIdle /\ StartIdle

\* No invocation of mailing has run yet: empty tables, a closed session.
MailStart ==
    /\ usernames = <<>>
    /\ jobs = <<>>
    /\ pc = "idle"
    /\ account_id = 0
    /\ account = NoAccount
    /\ accountExpired = FALSE
    /\ txActive = FALSE
    /\ tx = {}
    /\ targets = <<>>
    /\ idx = 0
    /\ messages = <<>>
    /\ attempt = 0
    /\ success = FALSE
    /\ skip_deletion = FALSE
    /\ stop_mailing = FALSE
    /\ sent = 0
    /\ result = NoResult
    /\ history = <<>>
    /\ lastExc = NoExc
    /\ lastSleep = NoSleep
    /\ unreachable = {}
    /\ exit = "none"

\* The store of the specifications that do not run mailing.
StoreIdle ==
    /\ cache = [kind |-> "int", val |-> 1]
    /\ accounts = [a \in AccountIds |->
                      [is_started |-> TRUE, is_connected |-> TRUE, batch_size |-> 1]]
    /\ texts = [a \in AccountIds |-> "complete"]

Init ==
    /\ AuxIdle
    /\ cache \in CacheValues
    /\ accounts \in
          { [a \in AccountIds |->
                IF a = 1
                THEN [is_started |-> s, is_connected |-> c, batch_size |-> b]
                ELSE [is_started |-> TRUE, is_connected |-> TRUE, batch_size |-> 1]] :
            s \in BOOLEAN, c \in BOOLEAN, b \in 0..MaxBatch }
    /\ texts \in
          { [a \in AccountIds |-> IF a = 1 THEN t ELSE "complete"] :
            t \in {"none", "incomplete", "complete"} }
    /\ MailStart

\* ------------------------------------------------------------ the session
\* session.commit(): the pending changes reach the store.
MutCommitNothing(table, ops) == table

CommitUsernames(table, ops) ==
    [i \in 1..Len(table) |->
        IF [op |-> "delete", id |-> i] \in ops
        THEN [table[i] EXCEPT !.exists = FALSE]
        ELSE IF [op |-> "update_sended", id |-> i] \in ops /\ table[i].exists
        THEN [table[i] EXCEPT !.sended = TRUE]
        ELSE table[i]]

MutCommitAccountsNothing(accts, ops) == accts

CommitAccounts(accts, ops) ==
    [a \in DOMAIN accts |->
        IF [op |-> "is_started_false", id |-> a] \in ops
        THEN [accts[a] EXCEPT !.is_started = FALSE]
        ELSE accts[a]]

CommitJobs(js, ops, aid) ==
    IF [op |-> "add_job", id |-> aid] \in ops
    THEN Append(js, [account_id |-> aid, name |-> "account_notification",
                     answered |-> TRUE])
    ELSE js

\* account.is_started = False; session.add(Job(account_id=account.id,
\*   name="account_notification", answer=_build_stop_payload(account)))
MutStopOpsNoJob(aid) == { [op |-> "is_started_false", id |-> aid] }
StopOps(aid) ==
    { [op |-> "is_started_false", id |-> aid], [op |-> "add_job", id |-> aid] }

\* mailing returns or raises: the async with block closes the session, and
\* what was not committed is dropped.
Leave(how) ==
    /\ pc' = "idle"
    /\ exit' = how
    /\ account' = NoAccount
    /\ accountExpired' = FALSE
    /\ txActive' = FALSE
    /\ tx' = {}

\* ------------------------------------------------------------ environment
\* The admin side inserts a recipient row (autoincrement id, sended false);
\* it may do so while a pass is running.
AddUsername ==
    /\ Len(usernames) < MaxRows
    /\ \E a \in AccountIds :
       \E u \in (IF a = 1 THEN UsernameSamples ELSE {ValidSample}) :
          usernames' = Append(usernames,
              [account_id |-> a, username |-> u, sended |-> FALSE, exists |-> TRUE])
    /\ UNCHANGED <<cache, accounts, texts, jobs, pc, sessVars, localVars, histVars>>
    /\ UNCHANGED auxVars

\* ---------------------------------------------------------------- mailing
\* Lines 175-183: the scheduler calls mailing; account_id_raw is read from
\* the cache and parsed.
Invoke ==
    /\ pc = "idle"
    /\ LET parsed == ParseAccountId(cache)
       IN  IF parsed.ok
           THEN /\ account_id' = parsed.val
                /\ pc' = "get_account"
                /\ exit' = "running"
           ELSE /\ account_id' = 0
                /\ pc' = "idle"
                /\ exit' = "returned"
    /\ targets' = <<>>
    /\ idx' = 0
    /\ messages' = <<>>
    /\ attempt' = 0
    /\ success' = FALSE
    /\ skip_deletion' = FALSE
    /\ stop_mailing' = FALSE
    /\ sent' = 0
    /\ result' = NoResult
    /\ history' = <<>>
    /\ lastExc' = NoExc
    /\ lastSleep' = NoSleep
    /\ UNCHANGED <<storeVars, sessVars, unreachable>>
    /\ UNCHANGED auxVars

\* Lines 185-190: session.get(Account, account_id) and the two flag checks.
GetAccount ==
    /\ pc = "get_account"
    /\ IF account_id \notin DOMAIN accounts
       THEN /\ Leave("returned")
       ELSE IF ~accounts[account_id].is_started \/ ~accounts[account_id].is_connected
       THEN /\ Leave("returned")
       ELSE /\ account' = [id |-> account_id,
                           is_started |-> accounts[account_id].is_started,
                           is_connected |-> accounts[account_id].is_connected,
                           batch_size |-> accounts[account_id].batch_size]
            /\ txActive' = TRUE
            /\ pc' = "get_texts"
            /\ UNCHANGED <<accountExpired, tx, exit>>
    /\ UNCHANGED <<storeVars, localVars, result, history, lastExc, lastSleep, unreachable>>
    /\ UNCHANGED auxVars

\* Lines 191-200: the AccountTexts row of the account; without one the run
\* ends.  build_text_pools reads the nine pools.
GetTexts ==
    /\ pc = "get_texts"
    /\ IF texts[account_id] = "none"
       THEN Leave("returned")
       ELSE /\ pc' = "fetch"
            /\ UNCHANGED <<sessVars, exit>>
    /\ UNCHANGED <<storeVars, localVars, result, history, lastExc, lastSleep, unreachable>>
    /\ UNCHANGED auxVars

\* Lines 201-229: the batch is fetched; an empty batch stops the account and
\* adds the notification Job to the session.
Fetch ==
    /\ pc = "fetch"
    /\ LET batch == SelectPending(usernames, account_id, account.batch_size)
       IN  /\ targets' = batch
           /\ IF batch = <<>>
              THEN /\ tx' = tx \cup StopOps(account.id)
                   /\ pc' = "commit_stop"
              ELSE /\ tx' = tx
                   /\ pc' = "next"
    /\ UNCHANGED <<storeVars, account, accountExpired, txActive, account_id, idx,
                   messages, attempt, success, skip_deletion, stop_mailing, sent,
                   histVars>>
    /\ UNCHANGED auxVars

\* Lines 225-227 and 381-382: session.commit() of the stop, then the return.
CommitStop ==
    /\ pc = "commit_stop"
    /\ accounts' = CommitAccounts(accounts, tx)
    /\ jobs' = CommitJobs(jobs, tx, account_id)
    /\ usernames' = CommitUsernames(usernames, tx)
    /\ Leave("stopped")
    /\ UNCHANGED <<cache, texts, localVars, result, history, lastExc, lastSleep, unreachable>>
    /\ UNCHANGED auxVars

\* The texts of an account as randomize_text_message meets them: "incomplete"
\* has no greeting or no clarifying text (ValueError), "bad_field" has a
\* clarifying text with a field other than {item} (KeyError from str.format).
SampleBadClarifying == <<"question", "{price}", "?">>
ClarifyingOf(t) == IF t = "bad_field" THEN SampleBadClarifying ELSE SampleClarifying
ComposeFails(t) == t = "incomplete" \/ ~FormatOk(ClarifyingOf(t))

\* Lines 232-257: the next recipient of the batch.  An invalid username is
\* deleted; otherwise the message is composed (ValueError when a greeting or
\* a clarifying text is missing), the base delay is slept and the locals of
\* the send loop are reset.
NextRecipient ==
    /\ pc = "next"
    /\ IF idx = Len(targets)
       THEN /\ pc' = "remaining"
            /\ lastSleep' = NoSleep
            /\ UNCHANGED <<idx, messages, attempt, success, skip_deletion,
                           stop_mailing, history, sessVars, exit>>
       ELSE LET row == targets[idx + 1]
                username_value == _normalize_username(row.username)
            IN  /\ idx' = idx + 1
                /\ history' = <<>>
                /\ IF ~_is_valid_username(username_value)
                   THEN /\ tx' = tx \cup {[op |-> "delete", id |-> row.id]}
                        /\ txActive' = TRUE
                        /\ pc' = "commit_invalid"
                        /\ lastSleep' = NoSleep
                        /\ UNCHANGED <<messages, attempt, success, skip_deletion,
                                       stop_mailing, account, accountExpired, exit>>
                   ELSE IF ComposeFails(texts[account_id])
                   THEN /\ Leave("raised")
                        /\ lastSleep' = NoSleep
                        /\ UNCHANGED <<messages, attempt, success, skip_deletion,
                                       stop_mailing>>
                   ELSE /\ \E draw \in ComposerDraws :
                              messages' = AsList(Returned(randomize_text_message(
                                  SampleGreeting, <<>>, ClarifyingOf(texts[account_id]),
                                  SampleFollowUp, <<>>, draw)))
                        /\ lastSleep' = [kind |-> "base", secs |-> base_delay]
                        /\ attempt' = 0
                        /\ success' = FALSE
                        /\ skip_deletion' = FALSE
                        /\ stop_mailing' = FALSE
                        /\ pc' = IF LoopCond(0, FALSE) THEN "send" ELSE "after_loop"
                        /\ UNCHANGED <<sessVars, exit>>
    /\ UNCHANGED <<storeVars, account_id, targets, sent, result, lastExc,
                   unreachable>>
    /\ UNCHANGED auxVars

\* Lines 238-244: the delete of an invalid username is committed; continue.
CommitInvalid ==
    /\ pc = "commit_invalid"
    /\ usernames' = CommitUsernames(usernames, tx)
    /\ tx' = {}
    /\ txActive' = FALSE
    /\ pc' = "next"
    /\ UNCHANGED <<cache, accounts, texts, jobs, account, accountExpired, localVars,
                   histVars>>
    /\ UNCHANGED auxVars

\* Lines 352-360: continue when the row was kept, else the cooldown after
\* every cooldown_every-th recipient.
EndOfRecipient ==
    /\ pc' = "next"
    /\ IF (skip_deletion /\ ~success) \/ ~NeedsCooldown(idx)
       THEN lastSleep' = NoSleep
       ELSE lastSleep' = [kind |-> "cooldown", secs |-> cooldown_range]

\* Lines 259-330: one pass through the body of the send loop.
\* send_message_safe returns True or raises; the except clauses and the
\* retry delay follow.
SendAttemptOf(failures) ==
    /\ pc = "send"
    /\ \E fail \in 0..Len(messages) :
       \E exc \in (IF fail = 0 THEN {NoExc} ELSE failures) :
          LET r == send_message_safe(messages, fail, exc)
              h == IF r.ok THEN "ok" ELSE HandlerOf(r.exc)
              cur == targets[idx].id
          IN  /\ attempt' = attempt + 1
              /\ result' = [result EXCEPT ![cur] = ErrorKind(r.exc)]
              /\ history' = Append(history, ErrorKind(r.exc))
              /\ lastExc' = r.exc
              /\ success' = r.ok
              /\ skip_deletion' = (skip_deletion \/ h = "flood")
              /\ stop_mailing' = (stop_mailing \/ h = "peer_flood")
              /\ unreachable' =
                    IF ErrorKind(r.exc) = "unreachable"
                    THEN unreachable \cup {cur} ELSE unreachable
              /\ CASE h = "flood" ->
                        /\ lastSleep' =
                              [kind |-> "flood",
                               secs |-> <<FloodWaitTime(r.exc.seconds, FloodJitterMin),
                                          FloodWaitTime(r.exc.seconds, FloodJitterMax)>>]
                        /\ pc' = "after_loop"
                        /\ UNCHANGED sessVars
                   [] h = "unreachable" ->
                        /\ tx' = tx \cup {[op |-> "update_sended", id |-> cur]}
                        /\ txActive' = TRUE
                        /\ lastSleep' = NoSleep
                        /\ pc' = "commit_unreachable"
                        /\ UNCHANGED <<account, accountExpired>>
                   [] h = "other" ->
                        /\ tx' = {}
                        /\ txActive' = FALSE
                        /\ accountExpired' = (accountExpired \/ txActive)
                        /\ IF attempt' < max_send_attempts
                           THEN lastSleep' = [kind |-> "retry",
                                              secs |-> retry_delay_range]
                           ELSE lastSleep' = NoSleep
                        /\ pc' = IF LoopCond(attempt', FALSE)
                                 THEN "send" ELSE "after_loop"
                        /\ UNCHANGED account
                   [] OTHER ->
                        /\ lastSleep' = NoSleep
                        /\ pc' = "after_loop"
                        /\ UNCHANGED sessVars
    /\ UNCHANGED <<storeVars, account_id, targets, idx, messages, sent, exit>>
    /\ UNCHANGED auxVars

\* The transport can fail in every way.
SendAttempt == SendAttemptOf(Raised)

\* Lines 296-303: the unreachable recipient is marked sent and committed;
\* skip_deletion, break.
CommitUnreachable ==
    /\ pc = "commit_unreachable"
    /\ usernames' = CommitUsernames(usernames, tx)
    /\ tx' = {}
    /\ txActive' = FALSE
    /\ skip_deletion' = TRUE
    /\ lastSleep' = NoSleep
    /\ lastExc' = NoExc
    /\ pc' = "after_loop"
    /\ UNCHANGED <<cache, accounts, texts, jobs, account, accountExpired, account_id,
                   targets, idx, messages, attempt, success, stop_mailing, sent,
                   result, history, unreachable, exit>>
    /\ UNCHANGED auxVars

\* Lines 332-353: after the send loop.  stop_mailing leaves the batch;
\* otherwise the row is marked sent, deleted or kept.
AfterLoop ==
    /\ pc = "after_loop"
    /\ LET cur == targets[idx].id
           act == RowAction(success, skip_deletion)
       IN  IF stop_mailing
           THEN /\ pc' = "remaining"
                /\ lastSleep' = NoSleep
                /\ UNCHANGED <<tx, txActive>>
           ELSE IF act = "mark_sent"
           THEN /\ tx' = tx \cup {[op |-> "update_sended", id |-> cur]}
                /\ txActive' = TRUE
                /\ pc' = "commit_row"
                /\ lastSleep' = NoSleep
           ELSE IF act = "delete"
           THEN /\ tx' = tx \cup {[op |-> "delete", id |-> cur]}
                /\ txActive' = TRUE
                /\ pc' = "commit_row"
                /\ lastSleep' = NoSleep
           ELSE /\ EndOfRecipient
                /\ UNCHANGED <<tx, txActive>>
    /\ lastExc' = NoExc
    /\ UNCHANGED <<storeVars, account, accountExpired, localVars, result, history,
                   unreachable, exit>>
    /\ UNCHANGED auxVars

\* Lines 341-342 and 345-350: the row mutation is committed (sent += 1 on
\* success), then lines 352-360.
CommitRow ==
    /\ pc = "commit_row"
    /\ usernames' = CommitUsernames(usernames, tx)
    /\ tx' = {}
    /\ txActive' = FALSE
    /\ sent' = IF success THEN sent + 1 ELSE sent
    /\ EndOfRecipient
    /\ UNCHANGED <<cache, accounts, texts, jobs, account, accountExpired, account_id,
                   targets, idx, messages, attempt, success, skip_deletion,
                   stop_mailing, result, history, lastExc, unreachable, exit>>
    /\ UNCHANGED auxVars

\* Lines 362-380: is any Pending row of the account left?  If none, the
\* account is stopped and the notification Job added; reading account.id of
\* an Account expired by a rollback needs a refresh the AsyncSession cannot
\* do from attribute access, and raises.
CheckRemaining ==
    /\ pc = "remaining"
    /\ IF ~NoneRemaining(usernames, account_id)
       THEN Leave("returned")
       ELSE IF accountExpired
       THEN Leave("raised")
       ELSE /\ tx' = tx \cup StopOps(account.id)
            /\ txActive' = TRUE
            /\ pc' = "commit_stop"
            /\ UNCHANGED <<account, accountExpired, exit>>
    /\ lastSleep' = NoSleep
    /\ UNCHANGED <<storeVars, localVars, result, history, lastExc, unreachable>>
    /\ UNCHANGED auxVars

Next ==
    \/ AddUsername
    \/ Invoke
    \/ GetAccount
    \/ GetTexts
    \/ Fetch
    \/ CommitStop
    \/ NextRecipient
    \/ CommitInvalid
    \/ SendAttempt
    \/ CommitUnreachable
    \/ AfterLoop
    \/ CommitRow
    \/ CheckRemaining

Spec == Init /\ [][Next]_vars

\* ------------------------------------------------------------------ crash
\* The process stops at some point of a pass: the session and the locals
\* are gone, the committed store stays.  The supervisor starts the process
\* again and the scheduler invokes mailing anew.
Crash ==
    /\ pc # "idle"
    /\ Leave("crashed")
    /\ account_id' = 0
    /\ targets' = <<>>
    /\ idx' = 0
    /\ messages' = <<>>
    /\ attempt' = 0
    /\ success' = FALSE
    /\ skip_deletion' = FALSE
    /\ stop_mailing' = FALSE
    /\ sent' = 0
    /\ result' = NoResult
    /\ history' = <<>>
    /\ lastSleep' = NoSleep
    /\ lastExc' = NoExc
    /\ UNCHANGED <<storeVars, unreachable>>
    /\ UNCHANGED auxVars

CrashNext ==
    \/ Invoke
    \/ GetAccount
    \/ GetTexts
    \/ Fetch
    \/ CommitStop
    \/ NextRecipient
    \/ CommitInvalid
    \/ SendAttempt
    \/ CommitUnreachable
    \/ AfterLoop
    \/ CommitRow
    \/ CheckRemaining
    \/ Crash

\* The tables the admin side can have filled before the first pass: up to
\* MaxRows Pending rows of the account.
PendingTables ==
    UNION { [1..n -> { [account_id |-> 1, username |-> u, sended |-> FALSE,
                        exists |-> TRUE] : u \in UsernameSamples }] :
            n \in 0..MaxRows }

\* The account the crashes are explored for: cached, started, connected and
\* with its texts configured.
CrashInit ==
    /\ AuxIdle
    /\ cache = [kind |-> "int", val |-> 1]
    /\ accounts \in
          { [a \in AccountIds |->
                [is_started |-> TRUE, is_connected |-> TRUE,
                 batch_size |-> IF a = 1 THEN b ELSE 1]] : b \in 1..MaxBatch }
    /\ texts = [a \in AccountIds |-> "complete"]
    /\ usernames \in PendingTables
    /\ jobs = <<>>
    /\ pc = "idle"
    /\ account_id = 0
    /\ account = NoAccount
    /\ accountExpired = FALSE
    /\ txActive = FALSE
    /\ tx = {}
    /\ targets = <<>>
    /\ idx = 0
    /\ messages = <<>>
    /\ attempt = 0
    /\ success = FALSE
    /\ skip_deletion = FALSE
    /\ stop_mailing = FALSE
    /\ sent = 0
    /\ result = NoResult
    /\ history = <<>>
    /\ lastExc = NoExc
    /\ lastSleep = NoSleep
    /\ unreachable = {}
    /\ exit = "none"

CrashSpec == CrashInit /\ [][CrashNext]_vars

\* -------------------------------------------------------------- scheduler
\* set_tasks, lines 48-49: the range the mailing interval is drawn from.
MinMailingInterval == 60
Max(a, b) == IF a > b THEN a ELSE b

MutMailingIntervalsAsConfigured(s) == [min |-> s.min, max |-> s.max]

MailingIntervals(s) ==
    LET min_interval == Max(MinMailingInterval, s.min)
        max_interval == Max(min_interval, s.max)
    IN  [min |-> min_interval, max |-> max_interval]

\* The environment settings the scheduler is explored with: each limit below
\* and above the floor of 60 seconds.
SettingsValues == { [min |-> a, max |-> b] : a \in {0, 61}, b \in {0, 62} }

\* run_scheduler: while True: await scheduler.run_pending(); await
\* asyncio.sleep(1).  The loop calls run_pending when the previous call and
\* the sleep after it are over.
MutRunPendingNotAwaited(loop_pc_) == TRUE
CanCallRunPending(loop_pc_) == loop_pc_ = "loop"

\* Scheduler.run_pending awaits the job functions it has started and returns
\* when they have returned; a job should run when its next run time has come,
\* and its next run is one interval after the run.
RunPendingDone(active_) == active_ = 0
should_run(due_) == due_ = 0
ScheduleNextRun(interval_) == interval_

\* After set_tasks: mailing_job = scheduler.every(min_interval).seconds.do(...)
SchedInit ==
    /\ settings \in SettingsValues
    /\ interval = MailingIntervals(settings).min
    /\ due = ScheduleNextRun(interval)
    /\ loop_pc = "loop"
    /\ active = 0
    /\ elapsed = 0
    /\ StoreIdle
    /\ MailStart
    /\ CompIdle
    /\ CacheIdle
    /\ JobsIdle
    /\ SendIdle
    /\ StartIdle

\* The loop calls run_pending; a due mailing job is started: _mailing_job
\* draws the next interval and awaits mailing.
RunPending ==
    /\ CanCallRunPending(loop_pc)
    /\ IF should_run(due)
       THEN /\ active < 2
            /\ \E i \in MailingIntervals(settings).min..MailingIntervals(settings).max :
                   interval' = i
            /\ active' = active + 1
            /\ elapsed' = 0
            /\ loop_pc' = "awaiting"
       ELSE /\ loop_pc' = "sleeping"
            /\ UNCHANGED <<interval, active, elapsed>>
    /\ UNCHANGED <<settings, due>>
    /\ UNCHANGED schedRest

\* A second passes while an invocation of mailing runs (its delays, flood
\* waits and cooldowns).
PassTakesTime ==
    /\ active > 0
    /\ elapsed < MaxPass
    /\ elapsed' = elapsed + 1
    /\ UNCHANGED <<settings, loop_pc, due, interval, active>>
    /\ UNCHANGED schedRest

\* The invocation of mailing returns (or raises); the job is scheduled again.
MailingReturns ==
    /\ active > 0
    /\ active' = active - 1
    /\ due' = ScheduleNextRun(interval)
    /\ elapsed' = 0
    /\ UNCHANGED <<settings, loop_pc, interval>>
    /\ UNCHANGED schedRest

\* run_pending returns to run_scheduler.
RunPendingReturns ==
    /\ loop_pc = "awaiting"
    /\ RunPendingDone(active)
    /\ loop_pc' = "sleeping"
    /\ UNCHANGED <<settings, due, interval, active, elapsed>>
    /\ UNCHANGED schedRest

\* await asyncio.sleep(1)
SleepOneSecond ==
    /\ loop_pc = "sleeping"
    /\ due' = Max(0, due - 1)
    /\ loop_pc' = "loop"
    /\ UNCHANGED <<settings, interval, active, elapsed>>
    /\ UNCHANGED schedRest

SchedNext ==
    \/ RunPending
    \/ PassTakesTime
    \/ MailingReturns
    \/ RunPendingReturns
    \/ SleepOneSecond

SchedSpec == SchedInit /\ [][SchedNext]_vars

\* --------------------------------------------------------------- composer
\* The pools an account can have: every pool empty or filled; a clarifying
\* text with the {item} field, one that begins with an asking word, or one
\* with a field that format() is not given; a follow-up and a closing with
\* or without words of gratitude.
GreetingPools == { <<>>, <<SampleGreeting>> }
PoolValues ==
    [greetings_morning : GreetingPools, greetings_day : GreetingPools,
     greetings_evening : GreetingPools, greetings_night : GreetingPools,
     greetings_anytime : GreetingPools,
     clarifying_texts :
        { <<>>, <<SampleClarifying>>, << <<"ask", "{item}">> >>,
          << <<"question", "{price}">> >> },
     follow_up_texts : { <<>>, <<SampleFollowUp>>, << <<"follow_up", "thanks">> >> },
     lead_in_texts : { <<>>, << <<"lead_in">> >> },
     closing_texts : { <<>>, << <<"closing">> >>, << <<"closing", "thanks", "!">> >> }]

\* Hours of the day on both sides of each limit of _pick_greeting.
HourSamples == {4, 5, 11, 12, 17, 18, 22, 23}

CompInit ==
    /\ text_pools \in PoolValues
    /\ comp_pc = "start"
    /\ composed = NoComposed
    /\ SchedIdle
    /\ CacheIdle
    /\ JobsIdle
    /\ SendIdle
    /\ StartIdle
    /\ StoreIdle
    /\ MailStart

\* Line 176: greeting = _pick_greeting(text_pools)
PickGreeting ==
    /\ comp_pc = "start"
    /\ \E hour \in HourSamples, mix \in BOOLEAN :
          LET pool == _pick_greeting(text_pools, hour, mix)
          IN  IF pool = <<>>
              THEN /\ composed' = [status |-> "ValueError", messages |-> <<>>]
                   /\ comp_pc' = "done"
              ELSE /\ \E g \in Choices(pool) :
                         composed' = [status |-> "picked", messages |-> <<g>>]
                   /\ comp_pc' = "picked"
    /\ UNCHANGED text_pools
    /\ UNCHANGED compRest

\* Lines 177-260: the rest of randomize_text_message, and the wrapping of
\* its result by mailing.
ComposeRest ==
    /\ comp_pc = "picked"
    /\ IF text_pools.clarifying_texts = <<>>
       THEN composed' = [status |-> "ValueError", messages |-> <<>>]
       ELSE \E l \in ChoiceOrEmpty(text_pools.lead_in_texts),
               c \in Choices(text_pools.clarifying_texts),
               f \in ChoiceOrEmpty(text_pools.follow_up_texts),
               cl \in ChoiceOrEmpty(text_pools.closing_texts),
               d \in Draws :
               IF ~FormatOk(c)
               THEN composed' = [status |-> "KeyError", messages |-> <<>>]
               ELSE composed' =
                       [status |-> "ok",
                        messages |-> AsList(Returned(randomize_text_message(
                                        composed.messages[1], l, c, f, cl, d)))]
    /\ comp_pc' = "done"
    /\ UNCHANGED text_pools
    /\ UNCHANGED compRest

\* The composer is called again, for the next recipient.
CallAgain ==
    /\ comp_pc = "done"
    /\ comp_pc' = "start"
    /\ composed' = NoComposed
    /\ UNCHANGED text_pools
    /\ UNCHANGED compRest

CompNext ==
    \/ PickGreeting
    \/ ComposeRest
    \/ CallAgain

CompSpec == CompInit /\ [][CompNext]_vars

\* ================================================================ claims
\* Vocabulary of the properties below.
Last(q) == q[Len(q)]
TargetIds == { targets[k].id : k \in 1..Len(targets) }
Fetched == pc \notin {"idle", "get_account", "get_texts", "fetch"} \/ targets # <<>>
\* The k-th recipient of the batch has been dealt with: the loop body is
\* past it, or the pass is over.
Settled(k) ==
    \/ k < idx
    \/ k = idx /\ pc \in {"next", "remaining", "commit_stop", "idle"}
\* The k-th recipient is the one the loop body is working on or last worked on.
Current(k) == k = idx /\ idx >= 1
Touched(id) == \E op \in tx : op.id = id /\ op.op \in {"delete", "update_sended"}
EachVisitedOnce ==
    /\ idx <= Len(targets)
    /\ \A j, k \in 1..Len(targets) : j < k => targets[j].id < targets[k].id
    /\ \A k \in 1..Len(targets) : k > idx => result[targets[k].id] = "none"

\* C1: a recipient whose send attempts of this pass ended in 3 consecutive
\* unknown errors has its row deleted, and the delete committed, once the
\* loop is done with it; the row is neither marked sent nor left Pending.
C1_ExhaustedRowDeleted ==
    \A k \in 1..Len(targets) :
        LET id == targets[k].id
        IN  /\ (Current(k) /\ history = <<"other", "other", "other">>)
                  => pc # "send" /\ ~success /\ ~skip_deletion /\ ~stop_mailing
            /\ (Settled(k) /\ result[id] = "other")
                  => /\ ~usernames[id].exists
                     /\ ~usernames[id].sended
                     /\ ~Touched(id)

C1_Witness ==
    /\ idx >= 1
    /\ history = <<"other", "other", "other">>
    /\ pc = "next"
    /\ ~usernames[targets[idx].id].exists

\* C2: once a send attempt to a recipient has failed as unreachable, the row
\* is marked sent and committed and never deleted, no send attempt is made to
\* it again in this pass or a later one, and the pass goes on to the next
\* recipient instead of stopping.
C2_UnreachableMarkedSent ==
    \A id \in unreachable :
        /\ usernames[id].exists
        /\ [op |-> "delete", id |-> id] \notin tx
        /\ \/ usernames[id].sended
           \/ /\ pc = "commit_unreachable"
              /\ targets[idx].id = id
              /\ [op |-> "update_sended", id |-> id] \in tx
        /\ ~(pc = "send" /\ targets[idx].id = id)
        /\ (idx >= 1 /\ targets[idx].id = id /\ result[id] = "unreachable")
              => /\ Last(history) = "unreachable"
                 /\ ~stop_mailing
                 /\ ~success
                 /\ pc \in {"commit_unreachable", "after_loop", "next",
                            "remaining", "commit_stop", "idle"}
                 /\ pc = "after_loop" => skip_deletion

C2_Witness ==
    /\ pc = "send"
    /\ idx = 2
    /\ targets[1].id \in unreachable
    /\ result[targets[1].id] = "unreachable"
    /\ usernames[targets[1].id].sended
    /\ usernames[targets[1].id].exists

\* C3: when a send attempt is rate-limited with a wait of N seconds, mailing
\* sleeps at least N seconds, makes no further attempt on the recipient in
\* this pass, leaves its row Pending whatever unknown errors came before, and
\* goes on to the next recipient.
C3_FloodWaitKeepsRowPending ==
    /\ EachVisitedOnce
    /\ \A k \in 1..Len(targets) :
        LET id == targets[k].id
        IN  /\ (Current(k) /\ history # <<>> /\ Last(history) = "flood")
                  => /\ pc \in {"after_loop", "next", "remaining", "idle"}
                     /\ ~stop_mailing
                     /\ ~success
                     /\ pc = "after_loop"
                          => /\ lastExc.name = "FloodWaitError"
                             /\ lastSleep.kind = "flood"
                             /\ lastSleep.secs[1] >= lastExc.seconds
                             /\ skip_deletion
            /\ (k <= idx /\ result[id] = "flood")
                  => /\ usernames[id].exists
                     /\ ~usernames[id].sended
                     /\ ~Touched(id)

C3_Witness ==
    /\ pc = "send"
    /\ idx = 2
    /\ result[targets[1].id] = "flood"
    /\ usernames[targets[1].id].exists
    /\ ~usernames[targets[1].id].sended

C3_WitnessAfterUnknown ==
    /\ pc = "after_loop"
    /\ history = <<"other", "other", "flood">>
    /\ lastExc.seconds = MaxFloodSeconds
    /\ lastSleep.secs[1] >= MaxFloodSeconds

\* C4: a global send ban stops the batch at once: no further send attempt to
\* the banned recipient or to a later one, and neither its row nor a later
\* row of the batch is marked sent or deleted.
C4_PeerFloodStopsBatch ==
    (idx >= 1 /\ history # <<>> /\ Last(history) = "peer_flood")
        => /\ pc \in {"after_loop", "remaining", "idle"}
           /\ stop_mailing
           /\ ~success
           /\ \A k \in idx..Len(targets) :
                 LET id == targets[k].id
                 IN  /\ usernames[id].exists
                     /\ ~usernames[id].sended
                     /\ ~Touched(id)
                     /\ k > idx => result[id] = "none"

C4_Witness ==
    /\ pc = "idle"
    /\ idx = 1
    /\ Len(targets) = 2
    /\ history # <<>>
    /\ Last(history) = "peer_flood"
    /\ result[targets[2].id] = "none"
    /\ ~usernames[targets[2].id].sended

\* C5: after a send attempt that fails with an invalid identifier no further
\* attempt is made on the recipient and its row is deleted and committed,
\* also when fewer than 3 attempts were made.
C5_InvalidIdentifierDeleted ==
    \A k \in 1..Len(targets) :
        LET id == targets[k].id
        IN  /\ (Current(k) /\ history # <<>> /\ Last(history) = "invalid")
                  => /\ pc \in {"after_loop", "commit_row", "next", "remaining",
                                "commit_stop", "idle"}
                     /\ ~success /\ ~skip_deletion /\ ~stop_mailing
                     /\ pc = "commit_row" => [op |-> "delete", id |-> id] \in tx
            /\ (Settled(k) /\ result[id] = "invalid")
                  => /\ ~usernames[id].exists
                     /\ ~usernames[id].sended

C5_Witness ==
    /\ idx >= 1
    /\ history = <<"invalid">>
    /\ lastExc = NoExc
    /\ pc = "next"
    /\ ~usernames[targets[idx].id].exists

\* C6: after a send attempt that fails with an unknown error, with fewer
\* than 3 attempts made, mailing sleeps the retry delay and the next thing it
\* does is another attempt on the same recipient; a recipient whose later
\* attempt succeeds has its row marked sent and committed, not deleted.
C6_UnknownErrorRetriesSameRecipient ==
    /\ (idx >= 1 /\ history # <<>> /\ Last(history) = "other" /\ Len(history) < 3)
          => /\ pc = "send"
             /\ attempt = Len(history)
             /\ lastSleep.kind = "retry"
             /\ lastSleep.secs = retry_delay_range
             /\ result[targets[idx].id] = "other"
             /\ ~Touched(targets[idx].id)
    /\ \A k \in 1..Len(targets) :
          LET id == targets[k].id
          IN  (Settled(k) /\ result[id] = "ok")
                 => usernames[id].exists /\ usernames[id].sended

C6_Witness ==
    /\ idx >= 1
    /\ history = <<"other", "ok">>
    /\ pc = "next"
    /\ usernames[targets[idx].id].exists
    /\ usernames[targets[idx].id].sended

\* C7: one invocation makes at most 3 send attempts per recipient of the
\* batch, whatever the transport returns, and none after a successful one.
C7_AtMostThreeAttempts ==
    /\ EachVisitedOnce
    /\ attempt <= 3
    /\ Len(history) <= 3
    /\ pc \in {"send", "after_loop", "commit_unreachable", "commit_row"}
          => Len(history) = attempt
    /\ success => pc # "send"
    /\ \A i \in 1..Len(history) : history[i] = "ok" => i = Len(history)
    /\ pc = "send" => attempt < 3 /\ idx >= 1

C7_Witness ==
    /\ attempt = 3
    /\ history = <<"other", "other", "ok">>
    /\ pc = "after_loop"

\* C8: one invocation fetches at most batch_size recipients, counts at most
\* batch_size sent, and makes send attempts only to recipients of the
\* fetched batch; rows that become Pending while the pass runs are left
\* alone.
C8_AtMostBatchSize ==
    Fetched =>
        /\ Len(targets) <= accounts[account_id].batch_size
        /\ sent <= accounts[account_id].batch_size
        /\ sent <= idx
        /\ Cardinality({ id \in 1..MaxRows : result[id] # "none" })
              <= accounts[account_id].batch_size
        /\ \A id \in 1..MaxRows : result[id] # "none" => id \in TargetIds
        /\ \A id \in 1..Len(usernames) : id \notin TargetIds => ~Touched(id)

\* A row of the account that was inserted after the fetch (the batch had
\* room for it) is still Pending and untouched when the pass is over.
C8_Witness ==
    /\ pc = "idle"
    /\ exit = "returned"
    /\ Len(targets) = 1
    /\ accounts[account_id].batch_size = 2
    /\ sent = 1
    /\ \E id \in 1..Len(usernames) :
          /\ id \notin TargetIds
          /\ IsPending(usernames, account_id, id)
          /\ _is_valid_username(_normalize_username(usernames[id].username))
          /\ result[id] = "none"

\* C9: the batch is the lowest-id Pending rows of the cached account, at
\* most batch_size of them, in ascending id order, and the loop takes them in
\* that order; no row of another account and no Sent row is fetched or sent
\* to.
FetchedLowestPending(table, aid, lim, batch) ==
    LET pending == { i \in 1..Len(table) : IsPending(table, aid, i) }
        ids == { batch[k].id : k \in 1..Len(batch) }
    IN  /\ ids \subseteq pending
        /\ \A j, k \in 1..Len(batch) : j < k => batch[j].id < batch[k].id
        /\ Len(batch) = Min(lim, Cardinality(pending))
        /\ \A i \in pending \ ids : \A t \in ids : t < i
        /\ \A k \in 1..Len(batch) : batch[k].username = table[batch[k].id].username

C9_FetchStep ==
    (pc = "fetch" /\ pc' # "fetch")
        => FetchedLowestPending(usernames, account_id,
                                accounts[account_id].batch_size, targets')

C9_Rows ==
    /\ EachVisitedOnce
    /\ \A id \in TargetIds : usernames[id].account_id = account_id
    /\ \A id \in 1..MaxRows :
          result[id] # "none"
             => id \in TargetIds /\ usernames[id].account_id = account_id
    /\ pc = "send"
          => IsPending(usernames, account_id, targets[idx].id)
    /\ \A i \in 1..Len(usernames) :
          (IsPending(usernames, account_id, i) /\ i \notin TargetIds /\ Fetched)
             => \A t \in TargetIds : t < i

C9_BatchIsLowestPendingOfAccount == [][C9_FetchStep]_vars /\ []C9_Rows

\* A batch of one taken from an account with two Pending rows, behind a row
\* of the other account and a Sent row of its own.
C9_Witness ==
    /\ pc = "send"
    /\ Len(usernames) = 3
    /\ usernames[1].account_id # account_id
    /\ usernames[2].account_id = account_id
    /\ unreachable = {}
    /\ targets = <<[id |-> 2, username |-> usernames[2].username]>>
    /\ IsPending(usernames, account_id, 3)

C9_WitnessSentRowSkipped ==
    /\ pc = "send"
    /\ Len(usernames) = 3
    /\ usernames[1].account_id = account_id
    /\ usernames[1].sended
    /\ usernames[2].account_id # account_id
    /\ targets = <<[id |-> 3, username |-> usernames[3].username]>>

\* C10: when mailing, run for a started and connected account, fetches an
\* empty batch, it sets is_started false and adds exactly one
\* account_notification Job for the account, in one commit, and makes no
\* send attempt.
NotificationJobs(aid) ==
    SelectSeq(jobs, LAMBDA j : j.account_id = aid /\ j.name = "account_notification")

C10_EmptyBatchStopsAccount ==
    /\ (targets = <<>> /\ pc \notin {"idle", "get_account", "get_texts", "fetch"})
          => /\ pc = "commit_stop"
             /\ tx = { [op |-> "is_started_false", id |-> account_id],
                       [op |-> "add_job", id |-> account_id] }
             /\ accounts[account_id].is_started
             /\ accounts[account_id].is_connected
             /\ Len(NotificationJobs(account_id)) = 0
    /\ (targets = <<>> /\ pc = "idle" /\ exit = "stopped")
          => /\ ~accounts[account_id].is_started
             /\ Len(NotificationJobs(account_id)) = 1
             /\ Len(jobs) = 1
             /\ jobs[1].answered
    /\ (targets = <<>> /\ pc \notin {"get_account", "get_texts", "fetch"})
          => /\ \A id \in 1..MaxRows : result[id] = "none"
             /\ history = <<>>
             /\ attempt = 0
             /\ sent = 0

C10_Witness ==
    /\ pc = "idle"
    /\ exit = "stopped"
    /\ targets = <<>>
    /\ ~accounts[1].is_started
    /\ accounts[1].is_connected
    /\ Len(NotificationJobs(1)) = 1
    /\ \A i \in 1..Len(usernames) : ~IsPending(usernames, 1, i)

\* ---------------------------------------------------------------------------
\* Passes of mailing that the scheduler keeps starting, with a transport that
\* reports neither rate-limiting nor a global ban and no recipient added
\* ---------------------------------------------------------------------------

\* What client.send_message raises when it reports neither.
RaisedUnlimited ==
    { e \in Raised : ErrorKind(e) \notin {"flood", "peer_flood"} }

LiveSendAttempt == SendAttemptOf(RaisedUnlimited)

\* A started, connected account with batch_size at least 1, an AccountTexts
\* row, and up to MaxRows Pending rows.
LiveInit ==
    /\ AuxIdle
    /\ cache = [kind |-> "int", val |-> 1]
    /\ accounts \in
          { [a \in AccountIds |->
                [is_started |-> TRUE, is_connected |-> TRUE,
                 batch_size |-> IF a = 1 THEN b ELSE 1]] : b \in 1..MaxBatch }
    /\ texts \in
          { [a \in AccountIds |-> IF a = 1 THEN t ELSE "complete"] :
            t \in {"complete", "incomplete", "bad_field"} }
    /\ usernames \in PendingTables
    /\ jobs = <<>>
    /\ pc = "idle"
    /\ account_id = 0
    /\ account = NoAccount
    /\ accountExpired = FALSE
    /\ txActive = FALSE
    /\ tx = {}
    /\ targets = <<>>
    /\ idx = 0
    /\ messages = <<>>
    /\ attempt = 0
    /\ success = FALSE
    /\ skip_deletion = FALSE
    /\ stop_mailing = FALSE
    /\ sent = 0
    /\ result = NoResult
    /\ history = <<>>
    /\ lastExc = NoExc
    /\ lastSleep = NoSleep
    /\ unreachable = {}
    /\ exit = "none"

LiveNext ==
    \/ Invoke
    \/ GetAccount
    \/ GetTexts
    \/ Fetch
    \/ CommitStop
    \/ NextRecipient
    \/ CommitInvalid
    \/ LiveSendAttempt
    \/ CommitUnreachable
    \/ AfterLoop
    \/ CommitRow
    \/ CheckRemaining

\* run_scheduler never stops calling run_pending, and every await of a pass
\* completes: some step of mailing is always taken.
LiveSpec == LiveInit /\ [][LiveNext]_vars /\ WF_vars(LiveNext)

\* ---------------------------------------------------------------------------
\* Passes of mailing whose awaits all complete, with every transport outcome
\* ---------------------------------------------------------------------------

\* A step of the invocation itself, not of the admin side.
MailingStep ==
    \/ Invoke
    \/ GetAccount
    \/ GetTexts
    \/ Fetch
    \/ CommitStop
    \/ NextRecipient
    \/ CommitInvalid
    \/ SendAttempt
    \/ CommitUnreachable
    \/ AfterLoop
    \/ CommitRow
    \/ CheckRemaining

TermNext == MailingStep

\* Every query, commit, sleep and send the invocation awaits returns or
\* raises: a step of mailing that can be taken is taken.
TermSpec == LiveInit /\ [][TermNext]_vars /\ WF_vars(TermNext)

\* ---------------------------------------------------------------------------
\* The send loop for one recipient, send_message_safe taken part by part
\* ---------------------------------------------------------------------------

\* The lists mailing gets from the composer for its texts: 1 to 3 parts.
ComposedSamples ==
    { AsList(Returned(randomize_text_message(
          SampleGreeting, <<>>, SampleClarifying, SampleFollowUp, <<>>, d))) :
      d \in Draws }

\* for message in messages: the k-th message of the iteration.
MutPartAtReversed(messages_, k) == messages_[Len(messages_) + 1 - k]
PartAt(messages_, k) == messages_[k]

\* except Exception as e: logger.error(...); raise
MutReRaiseGeneric(exc) == [name |-> "Exception", seconds |-> 0]
ReRaise(exc) == exc

SendInit ==
    /\ SendIdle
    /\ StartIdle
    /\ SchedIdle
    /\ CompIdle
    /\ CacheIdle
    /\ JobsIdle
    /\ StoreIdle
    /\ MailStart

\* Lines 246-257: the message of the next recipient is composed and the
\* locals of the send loop are reset.
TakeRecipient ==
    /\ sm_pc = "left"
    /\ sm_messages' \in ComposedSamples
    /\ sm_pc' = "loop"
    /\ sm_pos' = 0
    /\ sm_attempt' = 0
    /\ sm_success' = FALSE
    /\ sm_break' = FALSE
    /\ sm_log' = <<>>
    /\ sm_returned' = NotCalled
    /\ UNCHANGED sendRest

\* Lines 259-267: the while test; attempt += 1 and the call of
\* send_message_safe, or the loop is left.
LoopTest ==
    /\ sm_pc = "loop"
    /\ IF LoopCond(sm_attempt, sm_success) /\ ~sm_break
       THEN /\ sm_attempt' = sm_attempt + 1
            /\ sm_pc' = "sending"
            /\ sm_pos' = 1
       ELSE /\ sm_pc' = "left"
            /\ UNCHANGED <<sm_attempt, sm_pos>>
    /\ UNCHANGED <<sm_messages, sm_success, sm_break, sm_log, sm_returned>>
    /\ UNCHANGED sendRest

\* One iteration of send_message_safe's for loop: client.send_message for the
\* part at hand succeeds, or raises and the exception is raised again to
\* mailing, whose except clause breaks or lets the loop go on.
SendPart ==
    /\ sm_pc = "sending"
    /\ sm_pos <= Len(sm_messages)
    /\ \E exc \in {NoExc} \cup Raised :
          /\ sm_log' = Append(sm_log,
                [attempt |-> sm_attempt, pos |-> sm_pos,
                 text |-> PartAt(sm_messages, sm_pos), exc |-> exc])
          /\ IF exc = NoExc
             THEN /\ sm_pos' = sm_pos + 1
                  /\ UNCHANGED <<sm_pc, sm_break, sm_returned>>
             ELSE /\ sm_returned' = [status |-> "raised", exc |-> ReRaise(exc)]
                  /\ sm_break' = (HandlerOf(ReRaise(exc)) # "other")
                  /\ sm_pc' = "loop"
                  /\ sm_pos' = 0
    /\ UNCHANGED <<sm_messages, sm_attempt, sm_success>>
    /\ UNCHANGED sendRest

\* The for loop is through: return True, success = True.
ReturnTrue ==
    /\ sm_pc = "sending"
    /\ sm_pos > Len(sm_messages)
    /\ sm_returned' = [status |-> "True", exc |-> NoExc]
    /\ sm_success' = TRUE
    /\ sm_pc' = "loop"
    /\ sm_pos' = 0
    /\ UNCHANGED <<sm_messages, sm_attempt, sm_break, sm_log>>
    /\ UNCHANGED sendRest

SendNext == TakeRecipient \/ LoopTest \/ SendPart \/ ReturnTrue

SendSpec == SendInit /\ [][SendNext]_vars

\* ---------------------------------------------------------------------------
\* The cache wrapper: RedisStorage over one Redis server
\* ---------------------------------------------------------------------------

Digits == <<"0", "1", "2", "3", "4", "5", "6", "7", "8", "9">>

RECURSIVE NatToBytes(_)
NatToBytes(n) ==
    IF n < 10 THEN <<Digits[n + 1]>>
    ELSE NatToBytes(n \div 10) \o <<Digits[(n % 10) + 1]>>

\* encoder.encode(value) of an integer: its JSON text.
encode(value) ==
    IF value < 0 THEN <<"-">> \o NatToBytes(0 - value) ELSE NatToBytes(value)

DigitValue(c) == CHOOSE d \in 0..9 : Digits[d + 1] = c

RECURSIVE BytesToNat(_)
BytesToNat(data) ==
    IF data = <<>> THEN 0
    ELSE BytesToNat(SubSeq(data, 1, Len(data) - 1)) * 10 + DigitValue(data[Len(data)])

\* decoder.decode(data) of the JSON text of an integer.
decode(data) ==
    IF Head(data) = "-" THEN 0 - BytesToNat(Tail(data)) ELSE BytesToNat(data)

MutBuildKeyNoSeparator(client_hash, key) ==
    <<"c", "a", "t", "c", "h", "e", "r", ":">> \o client_hash \o key

\* f"catcher:{self._client_hash}:{key}"
build_key(client_hash, key) ==
    <<"c", "a", "t", "c", "h", "e", "r", ":">> \o client_hash \o <<":">> \o key

\* self._redis.get(name): the bytes under the name, or nothing.
RedisHas(redis_, name) == \E e \in redis_ : e.name = name
RedisGet(redis_, name) == (CHOOSE e \in redis_ : e.name = name).data

\* RedisStorage.get: None when the server has nothing (or empty bytes) under
\* the built key, the decoded value otherwise.
get(redis_, client_hash, key) ==
    LET name == build_key(client_hash, key)
    IN  IF RedisHas(redis_, name) /\ RedisGet(redis_, name) # <<>>
        THEN Int_(decode(RedisGet(redis_, name)))
        ELSE None

\* self._redis.set(name, data) and self._redis.delete(*names).
RedisSet(redis_, name, data) ==
    {e \in redis_ : e.name # name} \cup {[name |-> name, data |-> data]}
RedisDelete(redis_, names) == {e \in redis_ : e.name \notin names}

CacheInit ==
    /\ CacheIdle
    /\ SchedIdle
    /\ CompIdle
    /\ JobsIdle
    /\ SendIdle
    /\ StartIdle
    /\ StoreIdle
    /\ MailStart

\* RedisStorage.set(key, value) through the storage of one client hash.
Set ==
    \E client_hash \in ClientHashes, key \in CacheKeys, value \in CacheInts :
        /\ redis' = RedisSet(redis, build_key(client_hash, key), encode(value))
        /\ written' = [written EXCEPT ![client_hash][key] = Int_(value)]
        /\ UNCHANGED got
        /\ UNCHANGED cacheRest

\* RedisStorage.get(key) through the storage of one client hash.
Get ==
    \E client_hash \in ClientHashes, key \in CacheKeys :
        /\ got' = [hash |-> client_hash, key |-> key,
                   value |-> get(redis, client_hash, key)]
        /\ UNCHANGED <<redis, written>>
        /\ UNCHANGED cacheRest

\* RedisStorage.delete(*keys) through the storage of one client hash.
Delete ==
    \E client_hash \in ClientHashes, keys \in (SUBSET CacheKeys) \ {{}} :
        /\ redis' = RedisDelete(redis, {build_key(client_hash, k) : k \in keys})
        /\ written' = [written EXCEPT ![client_hash] =
                           [k \in CacheKeys |-> IF k \in keys THEN None ELSE @[k]]]
        /\ UNCHANGED got
        /\ UNCHANGED cacheRest

CacheNext == Set \/ Get \/ Delete

CacheSpec == CacheInit /\ [][CacheNext]_vars

\* ---------------------------------------------------------------- startup
\* main (src/bot/__main__.py): the client, the binding of the session path to
\* an Account through the cache, update_account_name, set_tasks, then the
\* scheduler loop.

\* select(Account.id).where(Account.path_session == path_session).limit(1),
\* scalar_one_or_none(): the id of a row with the path, None without one.
SelectAccountId(paths, path_session) ==
    IF \E a \in DOMAIN paths : paths[a] = path_session
    THEN { Int_(a) : a \in { b \in DOMAIN paths : paths[b] = path_session } }
    ELSE { None }

\* `if account_id is None`
MutNeverNone(v) == FALSE
IsNone(v) == v = None

\* What an earlier run under the same API hash can have left under the key.
StaleAccountId == 7

StartInit ==
    /\ account_paths \in [AccountIds -> SessionPaths \cup {NoPath}]
    /\ bot_path_session \in SessionPaths
    /\ bot_api_hash \in ClientHashes
    /\ redis \in { {},
                   RedisSet({}, build_key(bot_api_hash, AccountIdKey),
                            encode(StaleAccountId)) }
    /\ written = [h \in ClientHashes |-> [k \in CacheKeys |-> None]]
    /\ got = [hash |-> <<>>, key |-> <<>>, value |-> None]
    /\ main_pc = "start"
    /\ main_account_id = None
    /\ registered = {}
    /\ ran = {}
    /\ set_calls = <<>>
    /\ SchedIdle
    /\ CompIdle
    /\ JobsIdle
    /\ SendIdle
    /\ StoreIdle
    /\ MailStart

\* Lines 127-130: init_telethon_client returns the client, or None (session
\* not authorized, or an error) and main exits.
InitClient ==
    /\ main_pc = "start"
    /\ \E client_ok \in BOOLEAN :
           main_pc' = IF client_ok THEN "client" ELSE "exited"
    /\ UNCHANGED <<account_paths, bot_path_session, bot_api_hash, main_account_id,
                   registered, ran, set_calls>>
    /\ UNCHANGED cacheVars
    /\ UNCHANGED startRest

\* Lines 132-139 with cache_account_identity, lines 84-99: the select, the
\* return of None without a row, storage.set("account_id", account_id)
\* otherwise (or the error of Redis), and main's return when it got None.
CacheAccountIdentity ==
    /\ main_pc = "client"
    /\ \E account_id_ \in SelectAccountId(account_paths, bot_path_session) :
           IF IsNone(account_id_)
           THEN /\ main_account_id' = None
                /\ main_pc' = "returned"
                /\ UNCHANGED <<redis, written, set_calls>>
           ELSE \E set_ok \in BOOLEAN :
                    IF set_ok
                    THEN /\ redis' = RedisSet(redis,
                                              build_key(bot_api_hash, AccountIdKey),
                                              encode(account_id_.val))
                         /\ written' = [written EXCEPT
                                ![bot_api_hash][AccountIdKey] = Int_(account_id_.val)]
                         /\ set_calls' = Append(set_calls, account_id_.val)
                         /\ main_account_id' = account_id_
                         /\ main_pc' = "cached"
                    ELSE /\ main_pc' = "raised"
                         /\ UNCHANGED <<redis, written, set_calls, main_account_id>>
    /\ UNCHANGED <<account_paths, bot_path_session, bot_api_hash, registered, ran, got>>
    /\ UNCHANGED startRest

\* Line 142: await update_account_name(...), called directly; it reads the
\* cache first and returns, or an error of the client or the database
\* leaves main.
UpdateNameAtStart ==
    /\ main_pc = "cached"
    /\ got' = [hash |-> bot_api_hash, key |-> AccountIdKey,
               value |-> get(redis, bot_api_hash, AccountIdKey)]
    /\ \E returns \in BOOLEAN :
           main_pc' = IF returns THEN "named" ELSE "raised"
    /\ UNCHANGED <<account_paths, bot_path_session, bot_api_hash, main_account_id,
                   registered, ran, set_calls, redis, written>>
    /\ UNCHANGED startRest

\* Line 144, set_tasks lines 51-76: the three jobs are handed to the scheduler.
SetTasks ==
    /\ main_pc = "named"
    /\ registered' = registered \cup PeriodicJobs
    /\ main_pc' = "running"
    /\ UNCHANGED <<account_paths, bot_path_session, bot_api_hash, main_account_id,
                   ran, set_calls>>
    /\ UNCHANGED cacheVars
    /\ UNCHANGED startRest

\* Lines 149-152, run_scheduler: the scheduler calls a job function it holds;
\* each of the three begins with storage.get("account_id").
RunJob ==
    /\ main_pc = "running"
    /\ \E job \in registered :
           ran' = ran \cup {job}
    /\ got' = [hash |-> bot_api_hash, key |-> AccountIdKey,
               value |-> get(redis, bot_api_hash, AccountIdKey)]
    /\ UNCHANGED <<account_paths, bot_path_session, bot_api_hash, main_pc,
                   main_account_id, registered, set_calls, redis, written>>
    /\ UNCHANGED startRest

\* Lines 154-158: an error of the client ends the gather; the client is
\* disconnected and main is over.
ClientStops ==
    /\ main_pc = "running"
    /\ main_pc' = "disconnected"
    /\ UNCHANGED <<account_paths, bot_path_session, bot_api_hash, main_account_id,
                   registered, ran, set_calls>>
    /\ UNCHANGED cacheVars
    /\ UNCHANGED startRest

StartNext ==
    \/ InitClient
    \/ CacheAccountIdentity
    \/ UpdateNameAtStart
    \/ SetTasks
    \/ RunJob
    \/ ClientStops

StartSpec == StartInit /\ [][StartNext]_vars


\* ---------------------------------------------------------------------------
\* process_jobs: answering the get_names_and_usernames Jobs
\* ---------------------------------------------------------------------------

MaxJobs == 3

\* Telegram users that can be pinned in the folder.
UserIds == {1, 2}

\* The answer column: NULL, the stop payload mailing stores, or the msgpack
\* encoding of processed_pairs (the users the loop went through to the end).
Null == [kind |-> "null", val |-> {}]
StopPayload == [kind |-> "stop_payload", val |-> {}]
packed_answer(processed_pairs) == [kind |-> "packed", val |-> processed_pairs]

\* What the loop does with one pinned user: every failure is a continue, only
\* a user with a matching Username row and an accepted AddContactRequest is
\* appended to processed_pairs.
UserOutcomes ==
    {"get_entity_failed", "not_a_user", "no_username", "no_row", "add_contact_failed",
     "processed"}

MutSelectJobsAnyAnswer(js, aid) ==
    { i \in 1..Len(js) :
        /\ js[i].account_id = aid
        /\ js[i].name = "get_names_and_usernames" }

\* select(Job).where(account_id == account_id,
\*   name == "get_names_and_usernames", answer IS NULL)
SelectJobs(js, aid) ==
    { i \in 1..Len(js) :
        /\ js[i].account_id = aid
        /\ js[i].name = "get_names_and_usernames"
        /\ js[i].answer = Null }

\* for job in jobs: job.answer = packed_answer
WriteAnswer(js, selected, answer) ==
    [i \in 1..Len(js) |->
        IF i \in selected
        THEN [js[i] EXCEPT !.answer = answer, !.answered = TRUE]
        ELSE js[i]]

\* process_jobs returns.
JobsReturn(how) ==
    /\ pj_pc' = "idle"
    /\ pj_account_id' = 0
    /\ pj_jobs' = {}
    /\ pinned_user_ids' = {}
    /\ pj_exit' = how

JobsInit ==
    /\ SchedIdle
    /\ CompIdle
    /\ CacheIdle
    /\ JobsIdle
    /\ SendIdle
    /\ StartIdle
    /\ MailStart
    /\ cache \in CacheValues
    /\ accounts = [a \in AccountIds |->
                      [is_started |-> TRUE, is_connected |-> TRUE, batch_size |-> 1]]
    /\ texts = [a \in AccountIds |-> "complete"]

\* Another process inserts a Job to be answered, for any account.
AddJob ==
    /\ Len(jobs) < MaxJobs
    /\ \E a \in AccountIds :
          jobs' = Append(jobs, [account_id |-> a, name |-> "get_names_and_usernames",
                                answered |-> FALSE, answer |-> Null])
    /\ UNCHANGED jobVars
    /\ UNCHANGED jobsRest

\* A mailing pass of some account stops it and inserts its notification Job,
\* which carries its answer from the start.
AddNotification ==
    /\ Len(jobs) < MaxJobs
    /\ \E a \in AccountIds :
          jobs' = Append(jobs, [account_id |-> a, name |-> "account_notification",
                                answered |-> TRUE, answer |-> StopPayload])
    /\ UNCHANGED jobVars
    /\ UNCHANGED jobsRest

\* process_jobs up to the selection: the cached id, then the Jobs to answer.
SelectStep ==
    /\ pj_pc = "idle"
    /\ LET parsed == ParseAccountId(cache)
           selected == SelectJobs(jobs, parsed.val)
       IN  IF ~parsed.ok THEN JobsReturn("bad_cache")
           ELSE IF selected = {} THEN JobsReturn("no_jobs")
           ELSE /\ pj_pc' = "selected"
                /\ pj_account_id' = parsed.val
                /\ pj_jobs' = selected
                /\ UNCHANGED <<pinned_user_ids, pj_exit>>
    /\ UNCHANGED jobs
    /\ UNCHANGED jobsRest

\* _ensure_phone_hidden, then _get_folder_pinned_user_ids: the pinned users of
\* the folder, none when the folder is not configured, not found or the
\* request fails.
GetPinned ==
    /\ pj_pc = "selected"
    /\ \E pinned \in SUBSET UserIds :
          IF pinned = {} THEN JobsReturn("no_pinned")
          ELSE /\ pj_pc' = "loop"
               /\ pinned_user_ids' = pinned
               /\ UNCHANGED <<pj_account_id, pj_jobs, pj_exit>>
    /\ UNCHANGED jobs
    /\ UNCHANGED jobsRest

\* The loop over set(pinned_user_ids), the answer written to every selected
\* Job, and the commit.
AnswerJobs ==
    /\ pj_pc = "loop"
    /\ \E outcome \in [pinned_user_ids -> UserOutcomes] :
          LET processed_pairs == {u \in pinned_user_ids : outcome[u] = "processed"}
          IN  jobs' = WriteAnswer(jobs, pj_jobs, packed_answer(processed_pairs))
    /\ JobsReturn("answered")
    /\ UNCHANGED jobsRest

JobsNext == AddJob \/ AddNotification \/ SelectStep \/ GetPinned \/ AnswerJobs

JobsSpec == JobsInit /\ [][JobsNext]_vars


\* C11: when a pass over a non-empty batch is over (the loop ran to its end
\* or a global ban cut it short) and the account has no Pending row, the
\* account is stopped and has its account_notification Job, both written by
\* one commit.
C11_StopAfterDrainedBatch ==
    /\ (pc = "commit_stop" /\ targets # <<>>)
          => /\ [op |-> "is_started_false", id |-> account_id] \in tx
             /\ [op |-> "add_job", id |-> account_id] \in tx
    /\ (pc = "idle" /\ targets # <<>> /\ NoneRemaining(usernames, account_id))
          => /\ ~accounts[account_id].is_started
             /\ Len(NotificationJobs(account_id)) = 1

\* C12: over any sequence of invocations a row only goes from Pending to
\* Sent or from Pending to Deleted: a Sent row stays Sent and is not deleted,
\* a Deleted row stays as it is, a row is marked sent or deleted only while
\* it is the recipient the pass is working on and was fetched as Pending,
\* and no send attempt is made to a row that is not Pending.
C12_RowStep ==
    /\ Len(usernames') >= Len(usernames)
    /\ \A i \in 1..Len(usernames) :
          /\ usernames'[i].account_id = usernames[i].account_id
          /\ usernames'[i].username = usernames[i].username
          /\ usernames[i].sended => usernames'[i].sended /\ usernames'[i].exists
          /\ ~usernames[i].exists => usernames'[i] = usernames[i]
          /\ usernames'[i] # usernames[i]
                => /\ IsPending(usernames, account_id, i)
                   /\ idx >= 1 /\ targets[idx].id = i
                   /\ \/ usernames'[i] = [usernames[i] EXCEPT !.sended = TRUE]
                      \/ usernames'[i] = [usernames[i] EXCEPT !.exists = FALSE]

C12_Rows ==
    /\ \A i \in 1..Len(usernames) : usernames[i].sended => usernames[i].exists
    /\ pc = "send" => IsPending(usernames, account_id, targets[idx].id)
    /\ \A op \in tx :
          op.op \in {"delete", "update_sended"}
             => /\ idx >= 1 /\ targets[idx].id = op.id
                /\ IsPending(usernames, account_id, op.id)

C12_RowsOnlyLeavePending == [][C12_RowStep]_vars /\ []C12_Rows

\* A later pass is sending to the third row after an earlier pass marked the
\* first row sent and deleted the second.
C12_Witness ==
    /\ pc = "send"
    /\ Len(usernames) = 3
    /\ usernames[1].sended /\ usernames[1].exists
    /\ ~usernames[2].exists /\ ~usernames[2].sended
    /\ targets[idx].id = 3
    /\ \A i \in 1..3 : usernames[i].account_id = account_id

\* C13: at most one invocation of mailing is in flight: the scheduler loop
\* starts one only when none is running, also when the running one has
\* lasted longer than the mailing interval and the job has long been due.
C13_SingleFlight ==
    /\ active <= 1
    /\ active = 1 => loop_pc = "awaiting"
    /\ loop_pc = "loop" => active = 0

C13_Witness ==
    /\ active = 1
    /\ elapsed > MailingIntervals(settings).max
    /\ should_run(due)
    /\ settings.max = 62

\* C14: at every point of a pass, and so wherever the process stops, the
\* committed store holds the outcome of every recipient the loop is done
\* with and every recipient not yet reached is Pending; nothing of a
\* finished recipient is left uncommitted when the next one starts, so the
\* rollback after an unknown error has nothing of an earlier recipient to
\* undo.
RowOps == { op \in tx : op.op \in {"delete", "update_sended"} }

C14_CommittedPerRecipient ==
    /\ (pc = "next" /\ idx = 0)
          => FetchedLowestPending(usernames, account_id,
                                  accounts[account_id].batch_size, targets)
    /\ pc \in {"next", "send", "remaining", "idle"} => RowOps = {}
    /\ \A op \in RowOps : idx >= 1 /\ op.id = targets[idx].id
    /\ \A k \in 1..Len(targets) :
          LET id == targets[k].id
          IN  /\ k > idx => IsPending(usernames, account_id, id)
              /\ Settled(k) =>
                    CASE result[id] \in {"ok", "unreachable"} ->
                             usernames[id].exists /\ usernames[id].sended
                      [] result[id] \in {"other", "invalid", "none"} ->
                             ~usernames[id].exists /\ ~usernames[id].sended
                      [] OTHER -> IsPending(usernames, account_id, id)

\* The process stopped while the second recipient of a batch was being sent
\* to: the first is Sent, the second Pending, nothing is pending commit.
C14_Witness ==
    /\ pc = "idle"
    /\ exit = "crashed"
    /\ Len(usernames) >= 2
    /\ usernames[1].sended
    /\ IsPending(usernames, 1, 2)
    /\ accounts[1].batch_size = 2
    /\ accounts[1].is_started

\* C15: whatever the transport raised during the send attempts of a pass,
\* the invocation ends by returning (after stopping the account or not),
\* never by raising; while it runs, every failure of an attempt leaves the
\* coroutine inside the loop or at the check that follows it.
C15_TransportFailureContained ==
    /\ (pc = "idle" /\ \E id \in 1..MaxRows : result[id] \notin {"none", "ok"})
          => exit \in {"returned", "stopped"}
    /\ (lastExc # NoExc /\ pc # "idle")
          => pc \in {"send", "after_loop", "commit_unreachable"}

\* C16 (as stated): with at least one greeting and one clarifying text the
\* composer yields 1 or 2 messages, each non-empty, the greeting before the
\* question before the follow-up.
Flat(msgs) ==
    IF Len(msgs) = 1 THEN msgs[1]
    ELSE IF Len(msgs) = 2 THEN msgs[1] \o msgs[2]
    ELSE msgs[1] \o msgs[2] \o msgs[3]
Places(text, words) == { i \in 1..Len(text) : text[i] \in words }
Before(text, first, second) ==
    \A i \in Places(text, first) : \A j \in Places(text, second) : i < j
GreetingQuestionFollowUp(msgs) ==
    /\ \A k \in 1..Len(msgs) : msgs[k] # <<>>
    /\ Places(msgs[1], {"hello"}) # {}
    /\ Places(Flat(msgs), {"question", "ask"}) # {}
    /\ Before(Flat(msgs), {"hello"}, {"question", "ask", "lead_in"})
    /\ Before(Flat(msgs), {"question", "ask", "item"}, {"follow_up", "closing"})
    /\ Len(msgs) >= 2 => Places(msgs[1], {"follow_up"}) = {}
    /\ Len(msgs) = 3
          => /\ Places(msgs[2], {"question", "ask"}) # {}
             /\ Places(msgs[3], {"follow_up"}) # {}

NoGreeting(tp) ==
    /\ tp.greetings_morning = <<>>
    /\ tp.greetings_day = <<>>
    /\ tp.greetings_evening = <<>>
    /\ tp.greetings_night = <<>>
    /\ tp.greetings_anytime = <<>>

C17_OnlyMissingTemplatesFail ==
    /\ (comp_pc = "done" /\ composed.status # "ok")
          => NoGreeting(text_pools) \/ text_pools.clarifying_texts = <<>>
    /\ (comp_pc = "done" /\ composed.status = "ok")
          => ~NoGreeting(text_pools) /\ text_pools.clarifying_texts # <<>>

\* C18 (as stated): when the loop is done with the recipient at an even
\* position of the batch, it has slept the cooldown before it takes the next
\* recipient, and after a recipient at an odd position it has not.
LoopDoneWith(k) == pc = "next" /\ idx = k /\ k >= 1

C18_CooldownAfterEverySecond ==
    \A k \in 1..Len(targets) :
        LoopDoneWith(k) => (lastSleep.kind = "cooldown" <=> k % 2 = 0)

\* C18 (amended): the cooldown is slept after the recipient at an even
\* position exactly when that recipient was sent to with success or had its
\* row deleted after failed attempts; a recipient with an invalid username,
\* a rate limit or an unreachable error gets none.  The cooldown is longer
\* than the base delay.
C18_CooldownAfterSecondUnlessSkipped ==
    /\ \A k \in 1..Len(targets) :
          LoopDoneWith(k)
             => (lastSleep.kind = "cooldown"
                    <=> /\ k % 2 = 0
                        /\ result[targets[k].id] \in {"ok", "other", "invalid"})
    /\ lastSleep.kind = "cooldown"
          => /\ pc = "next"
             /\ lastSleep.secs = cooldown_range
             /\ lastSleep.secs[1] > base_delay[2]

C18_Witness ==
    /\ pc = "next"
    /\ idx = 2
    /\ result[targets[1].id] = "flood"
    /\ result[targets[2].id] = "ok"
    /\ lastSleep.kind = "cooldown"
\* C19: through the storage of a client hash, get(key) returns the integer last
\* set under that key through a storage of the same client hash, and None when
\* the key was never set (or was deleted) there; what was set through a storage
\* of another client hash is never returned.
C19_CacheRoundTripPerClient ==
    /\ \A h \in ClientHashes, k \in CacheKeys :
           get(redis, h, k) = written[h][k]
    /\ got.hash \in ClientHashes =>
           got.value \in {None} \cup {Int_(n) : n \in CacheInts}

\* A get returned the integer set under its client hash while another client
\* hash holds a different integer under the same key and a third slot is unset.
C19_Witness ==
    /\ got.hash \in ClientHashes
    /\ got.value.kind = "int"
    /\ got.value = written[got.hash][got.key]
    /\ get(redis, got.hash, got.key) = got.value
    /\ \E h \in ClientHashes \ {got.hash} :
           /\ written[h][got.key].kind = "int"
           /\ written[h][got.key] # got.value
    /\ \E k \in CacheKeys : get(redis, got.hash, k) = None

\* A step of process_jobs changes a Job only by giving it an answer, and only a
\* Job of the account of the call, named get_names_and_usernames, with no answer
\* so far; a call that found no pinned user changes nothing.
C20_JobStep ==
    /\ Len(jobs') >= Len(jobs)
    /\ \A i \in 1..Len(jobs) :
          jobs'[i] # jobs[i] =>
              /\ pj_pc = "loop"
              /\ pinned_user_ids # {}
              /\ pj_exit' = "answered"
              /\ jobs[i].account_id = pj_account_id
              /\ ParseAccountId(cache) = [ok |-> TRUE, val |-> pj_account_id]
              /\ jobs[i].name = "get_names_and_usernames"
              /\ jobs[i].answer = Null
              /\ jobs'[i].answer.kind = "packed"
              /\ jobs'[i] = [jobs[i] EXCEPT !.answer = jobs'[i].answer, !.answered = TRUE]
    /\ pj_pc = "selected" /\ pj_pc' = "idle" =>
          /\ pj_exit' = "no_pinned"
          /\ jobs' = jobs
          /\ \A i \in pj_jobs : jobs'[i].answer = Null

\* C20: process_jobs writes an answer only to Jobs of the current account named
\* get_names_and_usernames whose answer is null; a Job that has an answer,
\* the account_notification Jobs of mailing included, is never modified, so a
\* Job is answered at most once; with no pinned users the selected Jobs stay
\* unanswered and unchanged.
C20_AnswersOnlySelectedJobs ==
    /\ [][C20_JobStep]_vars
    /\ [](\A i \in 1..Len(jobs) :
              /\ jobs[i].name = "account_notification" => jobs[i].answer = StopPayload
              /\ jobs[i].answered <=> jobs[i].answer # Null)

\* A call answered a Job of the current account while the table holds a
\* notification Job of the same account, a Job of the other account still
\* unanswered, and an earlier call had already answered another Job.
C20_Witness ==
    /\ pj_exit = "answered"
    /\ pj_pc = "idle"
    /\ \E i, j, k \in 1..Len(jobs) :
          /\ jobs[i].name = "get_names_and_usernames"
          /\ jobs[i].account_id = 1
          /\ jobs[i].answer.kind = "packed"
          /\ jobs[j].name = "account_notification"
          /\ jobs[j].account_id = 1
          /\ jobs[k].name = "get_names_and_usernames"
          /\ jobs[k].account_id = 2
          /\ jobs[k].answer = Null

\* The step in which mailing decides to stop the account (is_started = False
\* and the notification Job enter the session).
C21_DecidesToStop == pc # "commit_stop" /\ pc' = "commit_stop"

\* C21: mailing stops the account and adds the notification Job only when, at
\* the moment it decides, the account has no Pending recipient, whatever the
\* batch_size and the send outcomes.
C21_StopsOnlyWithoutPending ==
    [][C21_DecidesToStop => NoneRemaining(usernames, account_id)]_vars

\* The same with a batch_size of at least 1.
C21_StopsOnlyWithoutPendingPositiveBatch ==
    [][C21_DecidesToStop /\ account.batch_size >= 1 =>
          NoneRemaining(usernames, account_id)]_vars

\* One of the guards of lines 176-190 fails: no usable id in the cache, no
\* Account with the id, or the Account not started or not connected.
C22_GuardFails ==
    \/ cache.kind # "int"
    \/ cache.val \notin DOMAIN accounts
    \/ ~accounts[cache.val].is_started
    \/ ~accounts[cache.val].is_connected

\* A step taken while a guard fails: mailing does not get past the guards, adds
\* no send attempt, and the tables change only by rows the admin side inserts.
C22_GuardedStep ==
    C22_GuardFails =>
        /\ pc' \in {"idle", "get_account"}
        /\ Len(history') <= Len(history)
        /\ tx' = {}
        /\ accounts' = accounts
        /\ jobs' = jobs
        /\ Len(usernames') >= Len(usernames)
        /\ SubSeq(usernames', 1, Len(usernames)) = usernames

\* C22: with the cached account id missing or not an integer, with no Account
\* of that id, or with is_started or is_connected false, mailing sends nothing
\* and changes no Account, Username or Job row.
C22_NoEffectWhenGuardFails == [][C22_GuardedStep]_vars

\* An invocation returned at a guard while the account had a Pending row.
C22_Witness ==
    /\ C22_GuardFails
    /\ pc = "idle"
    /\ exit = "returned"
    /\ jobs = <<>>
    /\ ~NoneRemaining(usernames, 1)

\* C23: over any sequence of invocations of mailing (is_started set only by
\* mailing) the store holds at most one account_notification Job of the
\* account, and it holds the Job exactly when it holds is_started = false:
\* neither is visible without the other, also when the process stops midway.
C23_StopCommittedOnceAndTogether ==
    \A a \in AccountIds :
        /\ Len(NotificationJobs(a)) <= 1
        /\ ~accounts[a].is_started <=> Len(NotificationJobs(a)) = 1

\* The account was stopped after a pass over a non-empty batch, and a later
\* invocation returned at the is_started guard.
C23_Witness ==
    /\ pc = "idle"
    /\ exit = "returned"
    /\ ~accounts[1].is_started
    /\ Len(NotificationJobs(1)) = 1
    /\ \E i \in 1..Len(usernames) : usernames[i].sended

\* The stored username of a row, normalized, is 5 to 32 word characters.
C24_ValidRow(id) ==
    LET name == _normalize_username(usernames[id].username)
    IN  /\ Len(name) >= 5
        /\ Len(name) <= 32
        /\ \A i \in 1..Len(name) : name[i] \in {"a", "Z", "7", "_"}

\* No send attempt of the pass went to a row with an invalid username; while
\* the delete of such a row is being committed nothing has been composed,
\* slept or sent for it; once dealt with, the row is deleted in the store.
C24_InvalidNeverSent ==
    /\ \A id \in 1..Len(usernames) :
          result[id] # "none" => C24_ValidRow(id)
    /\ pc \in {"send", "commit_unreachable", "after_loop", "commit_row"}
          => C24_ValidRow(targets[idx].id)
    /\ pc = "commit_invalid"
          => /\ ~C24_ValidRow(targets[idx].id)
             /\ tx = {[op |-> "delete", id |-> targets[idx].id]}
             /\ history = <<>>
             /\ lastSleep = NoSleep
             /\ result[targets[idx].id] = "none"
    /\ \A k \in 1..Len(targets) :
          (Settled(k) /\ ~C24_ValidRow(targets[k].id))
             => /\ ~usernames[targets[k].id].exists
                /\ result[targets[k].id] = "none"

\* Taking up a recipient with an invalid username composes nothing, and the
\* commit of its delete is followed by the next recipient of the batch.
C24_InvalidStep ==
    /\ (pc = "next" /\ pc' = "commit_invalid") => messages' = messages
    /\ (pc = "commit_invalid" /\ pc' # pc)
          => /\ pc' = "next"
             /\ idx' = idx
             /\ targets' = targets
             /\ ~usernames'[targets[idx].id].exists

\* C24: mailing never attempts a send to a username that, normalized, is not
\* 5 to 32 letters, digits or underscores: the row is deleted and committed
\* before anything is composed or sent, and the batch goes on with the next
\* recipient.
C24_InvalidUsernameDeletedUnsent ==
    [][C24_InvalidStep]_vars /\ []C24_InvalidNeverSent

\* An invalid first recipient was deleted and the second recipient of the same
\* batch was then sent to.
C24_Witness ==
    /\ Len(targets) = 2
    /\ idx = 2
    /\ pc = "after_loop"
    /\ success
    /\ ~C24_ValidRow(targets[1].id)
    /\ ~usernames[targets[1].id].exists
    /\ result[targets[1].id] = "none"

\* At the end of a pass no fetched recipient is still Pending.
C25_BatchSettled ==
    (pc = "idle" /\ targets # <<>>)
        => \A k \in 1..Len(targets) : ~IsPending(usernames, account_id, targets[k].id)

\* The account has no Pending recipient and is stopped.
C25_Drained == NoneRemaining(usernames, 1) /\ ~accounts[1].is_started

\* C25: with no rate-limiting and no global ban reported, an AccountTexts row
\* configured, batch_size at least 1 and no recipient added, every recipient a
\* pass fetched is Sent or Deleted when the pass ends, and after finitely many
\* passes the account has no Pending recipient and is stopped.
C25_EveryPassSettlesAndAccountStops ==
    []C25_BatchSettled /\ <>[]C25_Drained

\* The same for texts the composer accepts.
C25_WithUsableTexts ==
    (texts[1] = "complete") => ([]C25_BatchSettled /\ <>[]C25_Drained)

\* The loop over the batch: at most batch_size recipients fetched, the loop
\* position within the batch, each recipient ahead not yet attempted, at most
\* 3 attempts on the recipient at hand.
C26_BoundedPass ==
    /\ idx <= Len(targets)
    /\ Fetched => Len(targets) <= accounts[account_id].batch_size
    /\ \A j, k \in 1..Len(targets) : j # k => targets[j].id # targets[k].id
    /\ \A k \in 1..Len(targets) : k > idx => result[targets[k].id] = "none"
    /\ attempt <= 3
    /\ pc = "send" => attempt < 3

\* A step of the loop never goes back in the batch, and never leaves a
\* recipient to return to it.
C26_LoopStep ==
    /\ pc # "idle" => idx' >= idx /\ idx' <= idx + 1
    /\ (pc # "idle" /\ idx' = idx) => attempt' >= attempt

\* C26: every invocation of mailing terminates, visiting each of the at most
\* batch_size fetched recipients once with at most 3 send attempts each,
\* whatever the transport returns.
C26_EveryInvocationTerminates ==
    /\ []C26_BoundedPass
    /\ [][C26_LoopStep]_vars
    /\ (pc # "idle") ~> (pc = "idle")

\* A pass over two recipients has ended after three attempts on the second,
\* the first having been rate-limited.
C26_Witness ==
    /\ pc = "idle"
    /\ exit \in {"returned", "stopped", "raised"}
    /\ Len(targets) = 2
    /\ idx = 2
    /\ attempt = 3
    /\ result[targets[1].id] = "flood"

\* The parts delivered to the recipient at a position of its message.
C27_Delivered(pos) ==
    { i \in 1..Len(sm_log) : sm_log[i].pos = pos /\ sm_log[i].exc = NoExc }

\* C27: within a pass each part of the recipient's message is delivered at
\* most once, also when an attempt fails part-way and the send is retried.
C27_EachPartAtMostOnce ==
    \A pos \in 1..Len(sm_messages) : Cardinality(C27_Delivered(pos)) <= 1

\* What holds instead: a part is delivered at most once per attempt.
C27_EachPartAtMostOncePerAttempt ==
    \A pos \in 1..Len(sm_messages) :
        /\ Cardinality(C27_Delivered(pos)) <= sm_attempt
        /\ \A i, j \in C27_Delivered(pos) : i # j => sm_log[i].attempt # sm_log[j].attempt

\* The calls of client.send_message made by the a-th call of send_message_safe.
C28_Calls(a) == SelectSeq(sm_log, LAMBDA e : e.attempt = a)

\* C28: send_message_safe sends the parts in list order, stops at the first
\* part whose send fails, raises that failure again without sending a later
\* part, and returns True only when every part was sent.
C28_InOrderStopAtFirstFailure ==
    /\ \A a \in 1..sm_attempt :
          LET calls == C28_Calls(a)
              ended == a < sm_attempt \/ sm_pc # "sending"
          IN  /\ Len(calls) <= Len(sm_messages)
              /\ \A j \in 1..Len(calls) :
                    /\ calls[j].pos = j
                    /\ calls[j].text = sm_messages[j]
                    /\ j < Len(calls) => calls[j].exc = NoExc
              /\ a < sm_attempt => (calls # <<>> /\ calls[Len(calls)].exc # NoExc)
              /\ (a = sm_attempt /\ ended /\ sm_returned.status = "raised")
                    => /\ calls # <<>>
                       /\ calls[Len(calls)].exc = sm_returned.exc
                       /\ sm_returned.exc # NoExc
              /\ (a = sm_attempt /\ ended /\ sm_returned.status = "True")
                    => /\ Len(calls) = Len(sm_messages)
                       /\ \A j \in 1..Len(calls) : calls[j].exc = NoExc
              /\ (a = sm_attempt /\ ended) => sm_returned.status \in {"True", "raised"}
    /\ sm_success <=> (sm_pc # "sending" /\ sm_returned.status = "True")
    /\ \A i \in 1..Len(sm_log) : sm_log[i].attempt \in 1..sm_attempt

\* A call on a three-part message raised what the second part failed with,
\* the first part having gone out and the third not.
C28_Witness ==
    /\ Len(sm_messages) = 3
    /\ sm_pc = "loop"
    /\ sm_attempt = 1
    /\ sm_returned.status = "raised"
    /\ sm_returned.exc.name = "UserIsBlockedError"
    /\ Len(sm_log) = 2
    /\ sm_log[1].exc = NoExc
    /\ sm_log[2].exc = sm_returned.exc


\* C29: the periodic jobs (mailing, process_jobs, update_account_name) are
\* registered only after the id of an Account whose path_session is the
\* session path of the program has been written to the cache, so a job that
\* runs reads that id; when no Account has the session path, nothing is
\* written to the cache and no periodic job is ever registered or run.
C29_Matching == { a \in AccountIds : account_paths[a] = bot_path_session }

C29_State ==
    /\ ran \subseteq registered
    /\ registered # {} =>
           /\ registered = PeriodicJobs
           /\ Len(set_calls) = 1
           /\ set_calls[1] \in C29_Matching
           /\ get(redis, bot_api_hash, AccountIdKey) = Int_(set_calls[1])
    /\ ran # {} => got.value = Int_(set_calls[1])
    /\ C29_Matching = {} =>
           /\ set_calls = <<>>
           /\ registered = {}
           /\ ran = {}

C29_JobsRegisteredAfterAccountCached ==
    /\ []C29_State
    /\ [][C29_Matching = {} => redis' = redis]_vars

C29_Witness ==
    /\ ran = PeriodicJobs
    /\ Cardinality(C29_Matching) = 2
    /\ bot_api_hash = <<"a", "b">>
    /\ got.value = Int_(2)

C29_WitnessNoAccount ==
    /\ C29_Matching = {}
    /\ main_pc = "returned"
    /\ redis # {}


\* C30: the interval of the mailing job is always within [min_interval,
\* max_interval], where min_interval is the larger of 60 and the configured
\* minimum and max_interval the larger of min_interval and the configured
\* maximum; whatever the configured pair (minimum above maximum, values below
\* 60) it is never below 60 seconds, before the first run and after the
\* redraw each run of the mailing job makes.
C30_min_interval == IF settings.min > 60 THEN settings.min ELSE 60
C30_max_interval ==
    IF settings.max > C30_min_interval THEN settings.max ELSE C30_min_interval

C30_IntervalWithinRange ==
    /\ interval >= 60
    /\ interval >= C30_min_interval
    /\ interval <= C30_max_interval

C30_Witness ==
    /\ settings = [min |-> 0, max |-> 62]
    /\ active = 1
    /\ interval = 61

C30_WitnessMinAboveMax ==
    /\ settings = [min |-> 61, max |-> 0]
    /\ active = 1
    /\ interval = 61

====
